---------------------------- MODULE Spec2Model ----------------------------
(***************************************************************************)
(* A model of the web text scraper: one scrape request runs fetch, script  *)
(* stripping, element selection, text filtering, extraction and export.    *)
(*                                                                         *)
(* Python strings are sequences of one-character strings, so that strip,   *)
(* re.sub, startswith, in and lower act on characters as they do in the    *)
(* code.  Tag names, ids and the literals the renderers print are atoms.   *)
(*                                                                         *)
(* The document tree is the sequence page of element nodes in document     *)
(* (pre-)order; a node has a tag, its attributes, the text it carries      *)
(* before its first child, and the index of its parent (0: top level).     *)
(* soup is the set of node indices still in the tree.                      *)
(***************************************************************************)
EXTENDS Integers, Sequences, FiniteSets, TLC

VARIABLES
    pc,             \* position of the request in the handler
    url,            \* URL text input
    remove_scripts, \* "Remove Scripts/Styles" checkbox
    tag_filter,     \* tag filter input, as split(",") cuts it
    id_filter,      \* id filter input, as split(",") cuts it
    search_terms,   \* search terms input, as split(",") cuts it
    match_type,     \* match type select box
    min_length,     \* minimum text length input
    page,           \* the document the server answers with
    soup,           \* nodes of the parsed tree (indices into page)
    error,          \* error returned by scrape_website, None when it succeeded
    elements,       \* selected elements (indices into page), in selection order
    results,        \* ElementRecord sequence
    text_lines,     \* Text Renderer output, one entry per line
    markdown_lines, \* Markdown Renderer output, one entry per line
    json_data,      \* the object the JSON Renderer serializes
    text_content,   \* the text download of ui.py / main.py
    custom_headers, \* custom headers input, None in Simple mode
    server,         \* what each attempt of the fetch meets, in order
    headers,        \* the headers the handler passes to scrape_website
    request_headers,\* the headers of the last request sent
    attempts,       \* requests sent so far
    messages,       \* st.error, st.warning and st.success calls, in order
    page_metadata,  \* metadata returned by scrape_website
    json_content,   \* the JSON download
    sort_by,        \* "Sort by" select box
    items_per_page, \* "Items per page" select box
    page_number,    \* "Page" select box, 0 before it is shown
    page_results,   \* the records of the page shown
    clock           \* what time.strftime reads in the Text, Markdown and JSON Renderer

vars == <<pc, url, remove_scripts, tag_filter, id_filter, search_terms,
          match_type, min_length, page, soup, error, elements, results,
          text_lines, markdown_lines, json_data, text_content,
          custom_headers, server, headers, request_headers, attempts, messages,
          page_metadata, json_content, sort_by, items_per_page, page_number,
          page_results,
          clock>>

None == <<"<None>">>

-----------------------------------------------------------------------------
(* Bounds of the model.                                                    *)

MaxElems == 3
MaxTextLen == 3
MaxMinLength == 2

-----------------------------------------------------------------------------
(* Strings.                                                                *)

Whitespace == {" ", "\n", "\t"}

LowerMap == [A |-> "a", G |-> "g", H |-> "h", O |-> "o", N |-> "n"]

lower_char(c) == IF c \in DOMAIN LowerMap THEN LowerMap[c] ELSE c

lower(s) == [i \in 1..Len(s) |-> lower_char(s[i])]

RECURSIVE lstrip_ws(_)
lstrip_ws(s) ==
    IF s # <<>> /\ Head(s) \in Whitespace THEN lstrip_ws(Tail(s)) ELSE s

RECURSIVE rstrip_ws(_)
rstrip_ws(s) ==
    IF s # <<>> /\ s[Len(s)] \in Whitespace
    THEN rstrip_ws(SubSeq(s, 1, Len(s) - 1))
    ELSE s

strip(s) == rstrip_ws(lstrip_ws(s))

RECURSIVE lstrip_char(_, _)
lstrip_char(s, c) ==
    IF s # <<>> /\ Head(s) = c THEN lstrip_char(Tail(s), c) ELSE s

startswith(s, prefix) ==
    /\ Len(prefix) <= Len(s)
    /\ SubSeq(s, 1, Len(prefix)) = prefix

endswith(s, suffix) ==
    /\ Len(suffix) <= Len(s)
    /\ SubSeq(s, Len(s) - Len(suffix) + 1, Len(s)) = suffix

contains(s, sub) ==
    \E i \in 0..(Len(s) - Len(sub)) : SubSeq(s, i + 1, i + Len(sub)) = sub

\* re.sub(r"\s+", " ", text): every maximal whitespace run becomes one space.
RECURSIVE sub_ws_runs(_)
sub_ws_runs(s) ==
    IF s = <<>> THEN <<>>
    ELSE IF Head(s) \in Whitespace
         THEN <<" ">> \o sub_ws_runs(lstrip_ws(s))
         ELSE <<Head(s)>> \o sub_ws_runs(Tail(s))

clean_text_nostrip(text) == sub_ws_runs(text)

clean_text(text) == strip(sub_ws_runs(text))

Digits == <<"0", "1", "2", "3", "4", "5", "6", "7", "8", "9">>

\* str(n), n >= 0
RECURSIVE str_int(_)
str_int(n) ==
    IF n < 10 THEN <<Digits[n + 1]>> ELSE str_int(n \div 10) \o <<Digits[(n % 10) + 1]>>

Range(f) == {f[x] : x \in DOMAIN f}

RECURSIVE Concat(_)
Concat(seqs) == IF seqs = <<>> THEN <<>> ELSE Head(seqs) \o Concat(Tail(seqs))

-----------------------------------------------------------------------------
(* The document tree.                                                      *)

\* element.get(key, default)
get(node, key, default) ==
    IF key \in DOMAIN node.attrs THEN node.attrs[key] ELSE default

RECURSIVE Ancestors(_, _)
Ancestors(pg, j) ==
    IF pg[j].parent = 0 THEN {}
    ELSE {pg[j].parent} \cup Ancestors(pg, pg[j].parent)

Subtree(pg, i) == {j \in i..Len(pg) : j = i \/ i \in Ancestors(pg, j)}

\* element.get_text(): the strings of the element's subtree, in document order.
RECURSIVE join_text(_, _, _, _)
join_text(pg, sp, i, j) ==
    IF j > Len(pg) THEN <<>>
    ELSE (IF j \in sp /\ j \in Subtree(pg, i) THEN pg[j].text ELSE <<>>)
         \o join_text(pg, sp, i, j + 1)

get_text(pg, sp, i) == join_text(pg, sp, i, i)

\* soup.find_all(name): every element of the tree with that tag name, in
\* document order.  The name is a string; an element's name is an atom.
RECURSIVE find_all_from(_, _, _, _)
find_all_from(pg, sp, name, j) ==
    IF j > Len(pg) THEN <<>>
    ELSE (IF j \in sp /\ <<pg[j].tag>> = name THEN <<j>> ELSE <<>>)
         \o find_all_from(pg, sp, name, j + 1)

find_all(pg, sp, name) == find_all_from(pg, sp, name, 1)

find_last_by_id(pg, sp, name) ==
    LET hits == {j \in sp : "id" \in DOMAIN pg[j].attrs /\ <<pg[j].attrs.id>> = name}
    IN  IF hits = {} THEN 0 ELSE CHOOSE j \in hits : \A k \in hits : j >= k

\* soup.find(id=name): the first element in document order with that id,
\* 0 (None) when there is none.
find_by_id(pg, sp, name) ==
    LET hits == {j \in sp : "id" \in DOMAIN pg[j].attrs /\ <<pg[j].attrs.id>> = name}
    IN  IF hits = {} THEN 0 ELSE CHOOSE j \in hits : \A k \in hits : j <= k

\* for script in soup(["script", "style", "noscript"]): script.decompose()
StripTags == {"script", "style", "noscript"}

decompose_scripts_elements_only(pg, sp) == {j \in sp : pg[j].tag \notin StripTags}

decompose_scripts(pg, sp) ==
    {j \in sp : \A i \in sp : pg[i].tag \in StripTags => j \notin Subtree(pg, i)}

-----------------------------------------------------------------------------
(* scraper.py: selection, text filter, extraction.                         *)

RECURSIVE filter_by_tags(_, _, _)
filter_by_tags(pg, sp, tags) ==
    IF tags = <<>> THEN <<>>
    ELSE find_all(pg, sp, strip(Head(tags))) \o filter_by_tags(pg, sp, Tail(tags))

RECURSIVE filter_ids(_, _, _)
filter_ids(pg, sp, ids) ==
    IF ids = <<>> THEN <<>>
    ELSE LET element == find_by_id(pg, sp, strip(Head(ids)))
         IN  (IF element # 0 THEN <<element>> ELSE <<>>)
             \o filter_ids(pg, sp, Tail(ids))

\* classes is always None in the callers.
filter_by_class_id(pg, sp, classes, ids) ==
    IF ids # None /\ ids # <<>> THEN filter_ids(pg, sp, ids) ELSE <<>>

term_matches(text, term, mt) ==
    \/ mt = "contains" /\ contains(text, term)
    \/ mt = "starts_with" /\ startswith(text, term)
    \/ mt = "ends_with" /\ endswith(text, term)
    \/ mt = "exact" /\ term = text

\* The loop over the terms of one element: TRUE when it appends the element
\* (and breaks), FALSE when it runs out of terms.
RECURSIVE term_loop(_, _, _)
term_loop(text, terms, mt) ==
    IF terms = <<>> THEN FALSE
    ELSE LET term == lower(strip(Head(terms)))
         IN  IF term = <<>> THEN term_loop(text, Tail(terms), mt)
             ELSE IF term_matches(text, term, mt) THEN TRUE
             ELSE term_loop(text, Tail(terms), mt)

\* The loop without its break: one append for every term that matches.
RECURSIVE term_loop_no_break(_, _, _, _)
term_loop_no_break(e, text, terms, mt) ==
    IF terms = <<>> THEN <<>>
    ELSE LET term == lower(strip(Head(terms)))
         IN  (IF term # <<>> /\ term_matches(text, term, mt) THEN <<e>> ELSE <<>>)
             \o term_loop_no_break(e, text, Tail(terms), mt)

RECURSIVE filter_by_text_content_no_break(_, _, _, _, _)
filter_by_text_content_no_break(pg, sp, elems, terms, mt) ==
    IF elems = <<>> THEN <<>>
    ELSE term_loop_no_break(Head(elems), lower(get_text(pg, sp, Head(elems))), terms, mt)
         \o filter_by_text_content_no_break(pg, sp, Tail(elems), terms, mt)

RECURSIVE filter_by_text_content(_, _, _, _, _)
filter_by_text_content(pg, sp, elems, terms, mt) ==
    IF elems = <<>> THEN <<>>
    ELSE LET text == lower(get_text(pg, sp, Head(elems)))
         IN  (IF term_loop(text, terms, mt) THEN <<Head(elems)>> ELSE <<>>)
             \o filter_by_text_content(pg, sp, Tail(elems), terms, mt)

\* The record of one element: the common fields and the fields of its tag.
make_result(node, text) ==
    [text |-> text, tag |-> node.tag, length |-> Len(text),
     id |-> get(node, "id", "")]
    @@ (CASE node.tag = "a" ->
                [href |-> get(node, "href", <<>>),
                 target |-> get(node, "target", <<>>),
                 title |-> get(node, "title", <<>>),
                 rel |-> get(node, "rel", <<>>)]
          [] node.tag = "button" ->
                [type |-> get(node, "type", "button"),
                 onclick |-> get(node, "onclick", <<>>),
                 form |-> get(node, "form", <<>>),
                 disabled |-> get(node, "disabled", FALSE)]
          [] node.tag = "input" ->
                [type |-> get(node, "type", "text"),
                 name |-> get(node, "name", <<>>),
                 placeholder |-> get(node, "placeholder", <<>>),
                 value |-> get(node, "value", <<>>),
                 required |-> get(node, "required", FALSE)]
          [] node.tag = "img" ->
                [src |-> get(node, "src", <<>>),
                 alt |-> get(node, "alt", <<>>)]
          [] node.tag = "form" ->
                [action |-> get(node, "action", <<>>),
                 method |-> get(node, "method", "get")]
          [] OTHER -> << >>)

RECURSIVE extract_strict(_, _, _, _)
extract_strict(pg, sp, elems, minlen) ==
    IF elems = <<>> THEN <<>>
    ELSE LET text == clean_text(get_text(pg, sp, Head(elems)))
         IN  (IF Len(text) > minlen
              THEN <<make_result(pg[Head(elems)], text)>> ELSE <<>>)
             \o extract_strict(pg, sp, Tail(elems), minlen)

RECURSIVE extract_text_content(_, _, _, _)
extract_text_content(pg, sp, elems, minlen) ==
    IF elems = <<>> THEN <<>>
    ELSE LET text == clean_text(get_text(pg, sp, Head(elems)))
         IN  (IF Len(text) >= minlen
              THEN <<make_result(pg[Head(elems)], text)>> ELSE <<>>)
             \o extract_text_content(pg, sp, Tail(elems), minlen)

-----------------------------------------------------------------------------
(* utils.py: the renderers.                                                *)
(*                                                                         *)
(* A rendered line is a record: s is the string of the line; kind, tag and *)
(* rec tell which statement appended it (a section header, a record of the *)
(* sequence, padding), the section it belongs to and the position of the   *)
(* record it prints.  The literals of the code are single atoms of s; the  *)
(* emoji and the double quote are written by their code points.           *)

Line(kind, tag, k, s) == [kind |-> kind, tag |-> tag, rec |-> k, s |-> s]

Blank == Line("blank", "", 0, <<>>)

\* result.get(key): None when the record has no such key
rget(r, key) == IF key \in DOMAIN r THEN r[key] ELSE None

\* Python truth of a string or None
truthy(v) == v # None /\ v # <<>>

\* tag.upper()
upper_tag ==
    [ p |-> "P", h1 |-> "H1", h2 |-> "H2", h3 |-> "H3",
      h4 |-> "H4", h5 |-> "H5", h6 |-> "H6", div |-> "DIV",
      span |-> "SPAN", article |-> "ARTICLE",
      section |-> "SECTION", a |-> "A", button |-> "BUTTON",
      input |-> "INPUT", form |-> "FORM", li |-> "LI", td |-> "TD",
      th |-> "TH", label |-> "LABEL", nav |-> "NAV",
      header |-> "HEADER", footer |-> "FOOTER", main |-> "MAIN",
      em |-> "EM", img |-> "IMG", noscript |-> "NOSCRIPT",
      script |-> "SCRIPT", style |-> "STYLE" ]

\* tag.title(), of an upper-cased tag name
title_tag ==
    [ p |-> "P", h1 |-> "H1", h2 |-> "H2", h3 |-> "H3",
      h4 |-> "H4", h5 |-> "H5", h6 |-> "H6", div |-> "Div",
      span |-> "Span", article |-> "Article",
      section |-> "Section", a |-> "A", button |-> "Button",
      input |-> "Input", form |-> "Form", li |-> "Li", td |-> "Td",
      th |-> "Th", label |-> "Label", nav |-> "Nav",
      header |-> "Header", footer |-> "Footer", main |-> "Main",
      em |-> "Em", img |-> "Img", noscript |-> "Noscript",
      script |-> "Script", style |-> "Style" ]

\* urlparse(url).scheme: the text before the first colon, lower-cased
urlparse_scheme(u) ==
    LET colons == {i \in 1..Len(u) : u[i] = ":"}
    IN  IF colons = {} THEN <<>>
        ELSE lower(SubSeq(u, 1, (CHOOSE i \in colons : \A j \in colons : i <= j) - 1))

\* urlparse(url).netloc: after "//", up to the next "/", "?" or "#"
urlparse_netloc(u) ==
    LET colons == {i \in 1..Len(u) : u[i] = ":"}
        c == CHOOSE i \in colons : \A j \in colons : i <= j
        rest == IF colons = {} THEN u ELSE SubSeq(u, c + 1, Len(u))
        body == SubSeq(rest, 3, Len(rest))
        stops == {i \in 1..Len(body) : body[i] \in {"/", "?", "#"}}
    IN  IF ~startswith(rest, <<"/", "/">>) THEN <<>>
        ELSE IF stops = {} THEN body
        ELSE SubSeq(body, 1, (CHOOSE i \in stops : \A j \in stops : i <= j) - 1)

base_url(u) == urlparse_scheme(u) \o <<":", "/", "/">> \o urlparse_netloc(u)

AbsolutePrefixes ==
    { <<"h", "t", "t", "p", ":", "/", "/">>,
      <<"h", "t", "t", "p", "s", ":", "/", "/">>,
      <<"m", "a", "i", "l", "t", "o", ":">>,
      <<"t", "e", "l", ":">> }

\* Convert relative URLs to absolute, as the Text Renderer does it.
text_href_fragment_on_base(u, href) ==
    IF startswith(href, <<"/">>) THEN base_url(u) \o href
    ELSE IF startswith(href, <<"#">>) THEN base_url(u) \o href
    ELSE IF ~(\E pre \in AbsolutePrefixes : startswith(href, pre))
         THEN base_url(u) \o <<"/">> \o lstrip_char(href, "/")
    ELSE href

text_href(u, href) ==
    IF startswith(href, <<"/">>) THEN base_url(u) \o href
    ELSE IF startswith(href, <<"#">>) THEN u \o href
    ELSE IF ~(\E pre \in AbsolutePrefixes : startswith(href, pre))
         THEN base_url(u) \o <<"/">> \o lstrip_char(href, "/")
    ELSE href

\* Convert relative URLs to absolute, as the Markdown Renderer does it.
markdown_href_no_slash(u, href) ==
    IF startswith(href, <<"/">>) THEN base_url(u) \o href
    ELSE IF startswith(href, <<"#">>) THEN u \o href
    ELSE IF ~(\E pre \in AbsolutePrefixes : startswith(href, pre))
         THEN base_url(u) \o lstrip_char(href, "/")
    ELSE href

markdown_href(u, href) ==
    IF startswith(href, <<"/">>) THEN base_url(u) \o href
    ELSE IF startswith(href, <<"#">>) THEN u \o href
    ELSE IF ~(\E pre \in AbsolutePrefixes : startswith(href, pre))
         THEN base_url(u) \o <<"/">> \o lstrip_char(href, "/")
    ELSE href

\* element_groups: the upper-cased tags in the order of their first record.
RECURSIVE group_keys(_, _)
group_keys(res, k) ==
    IF k > Len(res) THEN <<>>
    ELSE LET tag == upper_tag[res[k].tag]
         IN  (IF \E j \in 1..(k - 1) : upper_tag[res[j].tag] = tag THEN <<>> ELSE <<tag>>)
             \o group_keys(res, k + 1)

\* element_groups[tag]: the positions of the records of the tag, in order.
RECURSIVE group_of(_, _, _)
group_of(res, tag, k) ==
    IF k > Len(res) THEN <<>>
    ELSE (IF upper_tag[res[k].tag] = tag THEN <<k>> ELSE <<>>) \o group_of(res, tag, k + 1)

section_order_links_first ==
    <<"A", "BUTTON", "FORM", "INPUT", "H1", "H2", "H3", "H4", "H5", "H6", "P",
      "DIV", "SPAN", "SECTION", "LI", "LABEL", "NAV", "HEADER", "FOOTER", "MAIN">>

section_order ==
    <<"BUTTON", "A", "FORM", "INPUT", "H1", "H2", "H3", "H4", "H5", "H6", "P",
      "DIV", "SPAN", "SECTION", "LI", "LABEL", "NAV", "HEADER", "FOOTER", "MAIN">>

\* tag.startswith("H"), among the upper-cased tag names of upper_tag
StartsWithH == {"H1", "H2", "H3", "H4", "H5", "H6", "HEADER"}

\* "\n".join(lines).strip(): the blank lines at the end go, and the
\* whitespace that ends the last line left.
RECURSIVE strip_end(_)
strip_end(lines) ==
    IF lines = <<>> THEN <<>>
    ELSE LET last == lines[Len(lines)]
         IN  IF rstrip_ws(last.s) = <<>> THEN strip_end(SubSeq(lines, 1, Len(lines) - 1))
             ELSE SubSeq(lines, 1, Len(lines) - 1) \o <<[last EXCEPT !.s = rstrip_ws(last.s)]>>

text_label(tag) ==
    CASE tag = "A" -> <<"Links:">>
      [] tag = "BUTTON" -> <<"Buttons:">>
      [] tag = "P" -> <<"Paragraphs:">>
      [] tag = "DIV" -> <<"Divs:">>
      [] tag = "SPAN" -> <<"Spans:">>
      [] tag = "FORM" -> <<"Forms:">>
      [] tag = "INPUT" -> <<"Input Fields:">>
      [] tag \in StartsWithH -> <<"Headers:">>
      [] OTHER -> <<title_tag[CHOOSE t \in DOMAIN upper_tag : upper_tag[t] = tag], "s:">>

text_record_line(res, u, tag, k) ==
    IF tag = "A" /\ truthy(rget(res[k], "href"))
    THEN Line("record", tag, k, res[k].text \o <<" -> ">> \o text_href(u, res[k].href))
    ELSE Line("record", tag, k, res[k].text)

text_section(res, u, tag) ==
    IF \E k \in 1..Len(res) : upper_tag[res[k].tag] = tag
    THEN <<Line("header", tag, 0, text_label(tag)), Blank>>
         \o [n \in 1..Len(group_of(res, tag, 1)) |->
                text_record_line(res, u, tag, group_of(res, tag, 1)[n])]
         \o <<Blank, Blank>>
    ELSE <<>>

text_rest_section(res, tag) ==
    IF tag \notin Range(section_order)
    THEN <<Line("header", tag, 0,
                <<title_tag[CHOOSE t \in DOMAIN upper_tag : upper_tag[t] = tag], "s:">>),
           Blank>>
         \o [n \in 1..Len(group_of(res, tag, 1)) |->
                Line("record", tag, group_of(res, tag, 1)[n],
                     res[group_of(res, tag, 1)[n]].text)]
         \o <<Blank, Blank>>
    ELSE <<>>

\* page_metadata.get("title", f"Scraped Content from {domain}")
page_title(u, meta) ==
    IF "title" \in DOMAIN meta THEN meta.title
    ELSE <<"Scraped Content from ">> \o urlparse_netloc(u)

\* if page_metadata.get(key): the line of that field
metadata_line(meta, key, label) ==
    IF key \in DOMAIN meta /\ meta[key] # <<>>
    THEN <<Line("page_meta", "", 0, label \o meta[key])>>
    ELSE <<>>

\* The page header and the metadata section of create_organized_text_content;
\* the bullet is written by its code point.
text_header(res, u, meta, now) ==
    <<Line("page_title", "", 0, page_title(u, meta)),
      Line("page_rule", "", 0, <<"==================================================">>),
      Blank,
      Line("page_meta", "", 0, <<"Page Metadata:">>),
      Blank,
      Line("page_meta", "", 0, <<"U+2022 Source URL: ">> \o u),
      Line("page_meta", "", 0, <<"U+2022 Domain: ">> \o urlparse_netloc(u)),
      Line("scraped_on", "", 0, <<"U+2022 Scraped on: ", now>>),
      Line("page_meta", "", 0, <<"U+2022 Total elements: ">> \o str_int(Len(res)))>>
    \o metadata_line(meta, "description", <<"U+2022 Description: ">>)
    \o metadata_line(meta, "keywords", <<"U+2022 Keywords: ">>)
    \o metadata_line(meta, "author", <<"U+2022 Author: ">>)
    \o metadata_line(meta, "lang", <<"U+2022 Language: ">>)
    \o metadata_line(meta, "canonical", <<"U+2022 Canonical URL: ">>)
    \o <<Blank, Blank>>

\* The start of "\n".join(lines).strip(): the leading lines of white space
\* go, and the white space that opens the first line left.
RECURSIVE strip_start(_)
strip_start(lines) ==
    IF lines = <<>> THEN <<>>
    ELSE IF lstrip_ws(Head(lines).s) = <<>> THEN strip_start(Tail(lines))
    ELSE <<[Head(lines) EXCEPT !.s = lstrip_ws(Head(lines).s)]>> \o Tail(lines)

create_organized_text_content(res, u, meta, now) ==
    strip_start(strip_end(
        text_header(res, u, meta, now)
        \o Concat([n \in 1..Len(section_order) |-> text_section(res, u, section_order[n])])
        \o Concat([n \in 1..Len(group_keys(res, 1)) |->
                      text_rest_section(res, group_keys(res, 1)[n])])))

markdown_section_order_headers_first ==
    <<"H1", "H2", "H3", "H4", "H5", "H6", "BUTTON", "A", "FORM", "INPUT", "P",
      "DIV", "SPAN", "SECTION", "LI", "LABEL", "NAV", "HEADER", "FOOTER", "MAIN">>

\* The section_order of create_markdown_content, a list of its own.
markdown_section_order ==
    <<"BUTTON", "A", "FORM", "INPUT", "H1", "H2", "H3", "H4", "H5", "H6", "P",
      "DIV", "SPAN", "SECTION", "LI", "LABEL", "NAV", "HEADER", "FOOTER", "MAIN">>

markdown_label(tag) ==
    CASE tag = "A" -> <<"## ", "U+1F517", " Links">>
      [] tag = "BUTTON" -> <<"## ", "U+1F518", " Buttons">>
      [] tag = "P" -> <<"## ", "U+1F4DD", " Paragraphs">>
      [] tag = "DIV" -> <<"## ", "U+1F4E6", " Divs">>
      [] tag = "SPAN" -> <<"## ", "U+1F3F7 U+FE0F", " Spans">>
      [] tag = "FORM" -> <<"## ", "U+1F4CB", " Forms">>
      [] tag = "INPUT" -> <<"## ", "U+1F4C4", " Input Fields">>
      [] tag \in StartsWithH -> <<"## ", "U+1F4F0", " Headers">>
      [] tag = "SECTION" -> <<"## ", "U+1F4D1", " Sections">>
      [] tag = "LI" -> <<"## ", "U+1F4CB", " List Items">>
      [] tag = "LABEL" -> <<"## ", "U+1F3F7 U+FE0F", " Labels">>
      [] tag = "NAV" -> <<"## ", "U+1F9ED", " Navigation">>
      [] tag = "FOOTER" -> <<"## ", "U+1F9B6", " Footer Elements">>
      [] tag = "MAIN" -> <<"## ", "U+1F3AF", " Main Content">>
      [] OTHER -> <<"## ", title_tag[CHOOSE t \in DOMAIN upper_tag : upper_tag[t] = tag], "s">>

\* A record that is not printed as a link: a block quote and an empty line
\* when its text is not blank, nothing otherwise.
markdown_quote(res, tag, k) ==
    IF strip(res[k].text) # <<>>
    THEN <<Line("record", tag, k, <<"> ">> \o res[k].text), Blank>>
    ELSE <<>>

markdown_record_lines(res, u, tag, k) ==
    IF tag = "A" /\ truthy(rget(res[k], "href"))
    THEN <<Line("record", tag, k,
                <<"- [">> \o res[k].text \o <<"](">> \o markdown_href(u, res[k].href) \o <<")">>)>>
    ELSE markdown_quote(res, tag, k)

Rule == Line("rule", "", 0, <<"---">>)

markdown_section(res, u, tag) ==
    IF \E k \in 1..Len(res) : upper_tag[res[k].tag] = tag
    THEN <<Line("header", tag, 0, markdown_label(tag)), Blank>>
         \o Concat([n \in 1..Len(group_of(res, tag, 1)) |->
                       markdown_record_lines(res, u, tag, group_of(res, tag, 1)[n])])
         \o <<Blank, Rule, Blank>>
    ELSE <<>>

markdown_rest_section(res, tag) ==
    IF tag \notin Range(markdown_section_order)
    THEN <<Line("header", tag, 0,
                <<"## ", title_tag[CHOOSE t \in DOMAIN upper_tag : upper_tag[t] = tag], "s">>),
           Blank>>
         \o Concat([n \in 1..Len(group_of(res, tag, 1)) |->
                       markdown_quote(res, tag, group_of(res, tag, 1)[n])])
         \o <<Blank, Rule, Blank>>
    ELSE <<>>

\* The page header and the metadata section of utils.create_markdown_content;
\* the emoji is written by its code point.
markdown_header(res, u, meta, now) ==
    <<Line("page_title", "", 0, <<"# ">> \o page_title(u, meta)),
      Blank,
      Line("page_meta", "", 0, <<"## U+1F4C4 Page Metadata">>),
      Blank,
      Line("page_meta", "", 0, <<"- **Source URL:** ">> \o u),
      Line("page_meta", "", 0, <<"- **Domain:** ">> \o urlparse_netloc(u)),
      Line("scraped_on", "", 0, <<"- **Scraped on:** ", now>>),
      Line("page_meta", "", 0, <<"- **Total elements:** ">> \o str_int(Len(res)))>>
    \o metadata_line(meta, "description", <<"- **Description:** ">>)
    \o metadata_line(meta, "keywords", <<"- **Keywords:** ">>)
    \o metadata_line(meta, "author", <<"- **Author:** ">>)
    \o metadata_line(meta, "lang", <<"- **Language:** ">>)
    \o metadata_line(meta, "canonical", <<"- **Canonical URL:** ">>)
    \o metadata_line(meta, "robots", <<"- **Robots:** ">>)
    \o metadata_line(meta, "og_title", <<"- **OG Title:** ">>)
    \o metadata_line(meta, "og_description", <<"- **OG Description:** ">>)
    \o <<Blank, Line("page_rule", "", 0, <<"---">>), Blank>>

create_markdown_content(res, u, meta, now) ==
    strip_start(strip_end(
        markdown_header(res, u, meta, now)
        \o Concat([n \in 1..Len(markdown_section_order) |-> markdown_section(res, u, markdown_section_order[n])])
        \o Concat([n \in 1..Len(group_keys(res, 1)) |->
                      markdown_rest_section(res, group_keys(res, 1)[n])])))

\* "\n\n---\n\n".join([r["text"] for r in results])
RECURSIVE join_texts(_)
join_texts(res) ==
    IF res = <<>> THEN <<>>
    ELSE IF Len(res) = 1 THEN res[1].text
    ELSE res[1].text \o <<"\n", "\n", "-", "-", "-", "\n", "\n">> \o join_texts(Tail(res))

make_json_data_stamped_url(res, u, meta, now) ==
    [metadata |-> meta, url |-> u \o <<now>>, scraped_at |-> now,
     total_elements |-> Len(res), elements |-> res]

\* json_data; now is what time.strftime reads
make_json_data(res, u, meta, now) ==
    [metadata |-> meta, url |-> u, scraped_at |-> now,
     total_elements |-> Len(res), elements |-> res]

-----------------------------------------------------------------------------
(* main.py: its own Markdown Renderer, from the summary on.  An entry of   *)
(* the list may hold line breaks; name is the name the entry gives to the  *)
(* record it prints.                                                       *)

Entry(kind, tag, k, name, s) ==
    [kind |-> kind, tag |-> tag, rec |-> k, name |-> name, s |-> s]

\* method.upper()
upper_method == [get |-> "GET", post |-> "POST", GET |-> "GET"]

\* int(tag[1]) + 1 of a heading tag
header_level == [h1 |-> 2, h2 |-> 3, h3 |-> 4, h4 |-> 5, h5 |-> 6, h6 |-> 7]

\* The condition of the list comprehensions that pick the records of a tag.
summary_keeps(r, tag) == r.tag = tag /\ (tag = "a" => truthy(rget(r, "href")))

\* [r for r in results if ...]: the positions of the records kept
RECURSIVE positions(_, _, _)
positions(res, tag, k) ==
    IF k > Len(res) THEN <<>>
    ELSE (IF summary_keeps(res[k], tag) THEN <<k>> ELSE <<>>) \o positions(res, tag, k + 1)

summary_buttons(res) == positions(res, "button", 1)
summary_links(res) == positions(res, "a", 1)
summary_forms(res) == positions(res, "form", 1)
summary_inputs(res) == positions(res, "input", 1)

\* r.get("id") or f"{prefix}-{i}"
id_or(r, prefix, n) == IF r.id # "" THEN <<r.id>> ELSE <<prefix, "-">> \o str_int(n)

\* Convert relative URLs to absolute, as main.py does it.
main_href(u, href) ==
    IF startswith(href, <<"/">>) THEN base_url(u) \o href
    ELSE IF startswith(href, <<"#">>) THEN u \o href
    ELSE IF ~(\E pre \in AbsolutePrefixes : startswith(href, pre))
         THEN base_url(u) \o <<"/">> \o lstrip_char(href, "/")
    ELSE href

summary_button_entry(res, n) ==
    LET k == summary_buttons(res)[n]
        name == id_or(res[k], "button", n)
    IN  Entry("summary", "BUTTON", k, name,
              <<"- **">> \o name \o <<"**: ", "U+0022">> \o res[k].text
              \o <<"U+0022", " (Type: ", res[k].type, ")">>)

summary_link_entry(res, u, n) ==
    LET k == summary_links(res)[n]
        name == id_or(res[k], "link", n)
    IN  Entry("summary", "A", k, name,
              <<"- **">> \o name \o <<"**: [">> \o res[k].text \o <<"](">>
              \o main_href(u, res[k].href) \o <<")">>)

summary_form_entry(res, n) ==
    LET k == summary_forms(res)[n]
        name == id_or(res[k], "form", n)
    IN  Entry("summary", "FORM", k, name,
              <<"- **">> \o name \o <<"**: ", upper_method[res[k].method], " U+2192 ">>
              \o res[k].action)

summary_input_entry(res, n) ==
    LET k == summary_inputs(res)[n]
        name == IF res[k].id # "" THEN <<res[k].id>>
                ELSE IF truthy(res[k].name) THEN res[k].name
                ELSE <<"input", "-">> \o str_int(n)
    IN  Entry("summary", "INPUT", k, name,
              <<"- **">> \o name \o <<"**: ", res[k].type>>
              \o (IF truthy(res[k].placeholder)
                  THEN <<" - ", "U+0022">> \o res[k].placeholder \o <<"U+0022">> ELSE <<>>))

summary_group(title, count, entries) ==
    IF count = 0 THEN <<>>
    ELSE <<Entry("summary_group", "", 0, <<>>,
                 <<"\n", title, " (">> \o str_int(count) \o <<")">>)>> \o entries

interactive_summary(res, u) ==
    IF summary_buttons(res) # <<>> \/ summary_links(res) # <<>>
       \/ summary_forms(res) # <<>> \/ summary_inputs(res) # <<>>
    THEN <<Entry("summary_title", "", 0, <<>>,
                 <<"## ", "U+1F3AF", " Interactive Elements Summary">>)>>
         \o summary_group("### U+1F518 Buttons", Len(summary_buttons(res)),
                [n \in 1..Len(summary_buttons(res)) |-> summary_button_entry(res, n)])
         \o summary_group("### U+1F517 Links", Len(summary_links(res)),
                [n \in 1..Len(summary_links(res)) |-> summary_link_entry(res, u, n)])
         \o summary_group("### U+1F4DD Forms", Len(summary_forms(res)),
                [n \in 1..Len(summary_forms(res)) |-> summary_form_entry(res, n)])
         \o summary_group("### U+1F4C4 Input Fields", Len(summary_inputs(res)),
                [n \in 1..Len(summary_inputs(res)) |-> summary_input_entry(res, n)])
         \o <<Entry("rule", "", 0, <<>>, <<"\n", "---", "\n">>)>>
    ELSE <<>>

\* The entries of one record in the content sections; i is its 1-based
\* position in results.
content_entries(res, u, i) ==
    LET r == res[i]
        TAG == upper_tag[r.tag]
        fallback(prefix) == id_or(r, prefix, i)
        optional(label, key) ==
            IF truthy(rget(r, key))
            THEN <<Entry("detail", TAG, i, <<>>, <<label>> \o r[key])>> ELSE <<>>
    IN  CASE r.tag \in DOMAIN header_level ->
                <<Entry("section", TAG, i, <<>>,
                        [n \in 1..header_level[r.tag] |-> "#"] \o <<" ">> \o r.text
                        \o (IF r.id # "" THEN <<" ", "U+0060", "#", r.id, "U+0060">> ELSE <<>>))>>
          [] r.tag = "title" ->
                <<Entry("section", TAG, i, <<>>, <<"## ", "U+1F4C4", " Page Title">>),
                  Entry("text", TAG, i, <<>>, <<"\n">> \o r.text)>>
          [] r.tag = "a" ->
                <<Entry("section", TAG, i, fallback("link"),
                        <<"## ", "U+1F517", " ">> \o fallback("link")),
                  Entry("text", TAG, i, <<>>, <<"\n", "**Link Text:** ">> \o r.text)>>
                \o (IF truthy(rget(r, "href"))
                    THEN <<Entry("url", TAG, i, <<>>,
                                 <<"**URL:** ">> \o main_href(u, r.href)),
                           Entry("link", TAG, i, <<>>,
                                 <<"\n", "[">> \o r.text \o <<"](">>
                                 \o main_href(u, r.href) \o <<")">>)>>
                    ELSE <<Entry("url", TAG, i, <<>>, <<"**URL:** No href attribute">>)>>)
                \o optional("**Target:** ", "target")
                \o optional("**Title:** ", "title")
                \o optional("**Rel:** ", "rel")
          [] r.tag = "button" ->
                <<Entry("section", TAG, i, fallback("button"),
                        <<"## ", "U+1F518", " ">> \o fallback("button")),
                  Entry("text", TAG, i, <<>>, <<"\n", "**Button Text:** ">> \o r.text),
                  Entry("detail", TAG, i, <<>>, <<"**Button Type:** ", r.type>>)>>
                \o (IF truthy(r.onclick)
                    THEN <<Entry("detail", TAG, i, <<>>,
                                 <<"**OnClick Event:** ", "U+0060">> \o r.onclick \o <<"U+0060">>)>>
                    ELSE <<>>)
                \o optional("**Associated Form:** ", "form")
                \o (IF r.disabled # FALSE /\ r.disabled # <<>>
                    THEN <<Entry("detail", TAG, i, <<>>, <<"**Disabled:** Yes">>)>>
                    ELSE <<>>)
          [] r.tag = "input" ->
                LET name == IF r.id # "" THEN <<r.id>>
                            ELSE IF truthy(r.name) THEN r.name
                            ELSE <<"input", "-">> \o str_int(i)
                IN  <<Entry("section", TAG, i, name, <<"## ", "U+1F4DD", " ">> \o name),
                      Entry("detail", TAG, i, <<>>, <<"\n", "**Input Type:** ", r.type>>)>>
                    \o optional("**Placeholder:** ", "placeholder")
                    \o optional("**Value:** ", "value")
                    \o optional("**Name:** ", "name")
                    \o (IF r.required # FALSE /\ r.required # <<>>
                        THEN <<Entry("detail", TAG, i, <<>>, <<"**Required:** Yes">>)>>
                        ELSE <<>>)
          [] r.tag = "form" ->
                <<Entry("section", TAG, i, fallback("form"),
                        <<"## ", "U+1F4CB", " ">> \o fallback("form")),
                  Entry("text", TAG, i, <<>>, <<"\n", "**Form Content:** ">> \o r.text),
                  Entry("detail", TAG, i, <<>>, <<"**Method:** ", upper_method[r.method]>>)>>
                \o (IF truthy(r.action)
                    THEN <<Entry("action", TAG, i, <<>>, <<"**Action:** ">> \o r.action)>>
                    ELSE <<>>)
          [] OTHER ->
                <<Entry("section", TAG, i, fallback(r.tag),
                        <<"## ">> \o fallback(r.tag) \o <<" ", "U+0060", "(", TAG, ")", "U+0060">>),
                  Entry("text", TAG, i, <<>>, <<"\n">> \o r.text)>>

content_trailer(res, i) ==
    <<Entry("meta", upper_tag[res[i].tag], i, <<>>,
            <<"\n", "*", "**Length:** ">> \o str_int(res[i].length) \o <<" chars">>
            \o (IF res[i].id # "" THEN <<" | ", "**ID:** ", "U+0060", res[i].id, "U+0060">> ELSE <<>>)
            \o <<"*">>),
      Entry("rule", "", 0, <<>>, <<"\n", "---", "\n">>)>>

\* if page_metadata.get(key): the entry of that field
metadata_entry(meta, key, label) ==
    IF key \in DOMAIN meta /\ meta[key] # <<>>
    THEN <<Entry("page_meta", "", 0, <<>>, label \o meta[key])>>
    ELSE <<>>

\* The page header and the metadata section of main.create_markdown_content.
main_markdown_header(res, u, meta, now) ==
    <<Entry("page_title", "", 0, <<>>, <<"# ">> \o page_title(u, meta)),
      Entry("page_meta", "", 0, <<>>, <<"\n", "## U+1F4C4 Page Metadata">>),
      Entry("page_meta", "", 0, <<>>, <<"- **Source URL:** ">> \o u),
      Entry("page_meta", "", 0, <<>>, <<"- **Domain:** ">> \o urlparse_netloc(u)),
      Entry("scraped_on", "", 0, <<>>, <<"- **Scraped on:** ", now>>),
      Entry("page_meta", "", 0, <<>>, <<"- **Total elements:** ">> \o str_int(Len(res)))>>
    \o metadata_entry(meta, "description", <<"- **Description:** ">>)
    \o metadata_entry(meta, "keywords", <<"- **Keywords:** ">>)
    \o metadata_entry(meta, "author", <<"- **Author:** ">>)
    \o metadata_entry(meta, "lang", <<"- **Language:** ">>)
    \o metadata_entry(meta, "canonical", <<"- **Canonical URL:** ">>)
    \o metadata_entry(meta, "robots", <<"- **Robots:** ">>)
    \o metadata_entry(meta, "og_title", <<"- **OG Title:** ">>)
    \o metadata_entry(meta, "og_description", <<"- **OG Description:** ">>)
    \o <<Entry("page_rule", "", 0, <<>>, <<"\n", "---", "\n">>)>>

\* main.py's create_markdown_content: the entries "\n".join puts together
main_create_markdown_content(res, u, meta, now) ==
    main_markdown_header(res, u, meta, now)
    \o interactive_summary(res, u)
    \o Concat([i \in 1..Len(res) |-> content_entries(res, u, i) \o content_trailer(res, i)])

-----------------------------------------------------------------------------
(* json: the text json.dumps writes and the value json.loads reads.  A     *)
(* text is a sequence of characters; a key, a word of the syntax (true,    *)
(* false, null) and an atom of the model are one token each.  A string is  *)
(* read as the sequence of its tokens, an object as a function of its      *)
(* keys, a key being the sequence of its tokens.                           *)

Quote == "U+0022"

Backslash == "\\"

\* The characters json.dumps escapes, and what follows the backslash.
EscapeOf == (Quote :> Quote) @@ (Backslash :> Backslash) @@ ("\n" :> "n") @@ ("\t" :> "t")

\* What json.loads reads after a backslash.
UnescapeOf ==
    (Quote :> Quote) @@ (Backslash :> Backslash) @@ ("/" :> "/")
    @@ ("n" :> "\n") @@ ("t" :> "\t")

no_escape(s) == s

\* The characters of a str as json.dumps writes them between the quotes.
json_escape(s) ==
    LET RECURSIVE escape_from(_)
        escape_from(i) ==
            IF i > Len(s) THEN <<>>
            ELSE (IF s[i] \in DOMAIN EscapeOf THEN <<Backslash, EscapeOf[s[i]]>>
                  ELSE <<s[i]>>)
                 \o escape_from(i + 1)
    IN  escape_from(1)

\* The JSON text of a str.
json_str(s) == <<Quote>> \o json_escape(s) \o <<Quote>>

\* The keys of a record in the order extract_text_content sets them.
record_fields ==
    <<"text", "tag", "length", "id", "href", "target", "title", "rel", "type",
      "onclick", "form", "disabled", "name", "placeholder", "value", "required",
      "src", "alt", "action", "method">>

\* What a value of the record is: a str, a str the model holds as one atom
\* ("" the empty one), an int or a bool.
FieldKind ==
    [ text |-> "str", tag |-> "atom", length |-> "int", id |-> "atom",
      href |-> "str", target |-> "str", title |-> "str", rel |-> "str",
      type |-> "atom", onclick |-> "str", form |-> "str", disabled |-> "bool",
      name |-> "str", placeholder |-> "str", value |-> "str", required |-> "bool",
      src |-> "str", alt |-> "str", action |-> "str", method |-> "atom" ]

\* The keys of page_metadata in the order scrape_website sets them.
metadata_fields ==
    <<"title", "description", "keywords", "author", "canonical", "robots",
      "og_title", "og_description", "og_image", "lang", "charset">>

\* json.dumps(json_data, indent=2, ensure_ascii=False): the members of a
\* dict in insertion order, each on a line of its own, two spaces for every
\* level, a comma after each but the last.
json_dumps(data) ==
    LET newline_indent(level) == <<"\n">> \o [k \in 1..(2 * level) |-> " "]
        member(key, level) ==
            newline_indent(level) \o json_str(<<key>>) \o <<":", " ">>
        dumps_field(kind, v) ==
            CASE kind = "str" -> json_str(v)
              [] kind = "atom" -> IF v = "" THEN json_str(<<>>) ELSE json_str(<<v>>)
              [] kind = "int" -> str_int(v)
              [] kind = "bool" -> IF v THEN <<"true">> ELSE <<"false">>
        RECURSIVE dumps_members(_, _, _, _)
        dumps_members(r, level, k, first) ==
            IF k > Len(record_fields) THEN <<>>
            ELSE IF record_fields[k] \notin DOMAIN r
                 THEN dumps_members(r, level, k + 1, first)
            ELSE (IF first THEN <<>> ELSE <<",">>)
                 \o member(record_fields[k], level + 1)
                 \o dumps_field(FieldKind[record_fields[k]], r[record_fields[k]])
                 \o dumps_members(r, level, k + 1, FALSE)
        dumps_record(r, level) ==
            <<"{">> \o dumps_members(r, level, 1, TRUE) \o newline_indent(level) \o <<"}">>
        RECURSIVE dumps_metadata(_, _, _)
        dumps_metadata(meta, level, k) ==
            IF k > Len(metadata_fields) THEN <<>>
            ELSE (IF k = 1 THEN <<>> ELSE <<",">>)
                 \o member(metadata_fields[k], level + 1)
                 \o json_str(meta[metadata_fields[k]])
                 \o dumps_metadata(meta, level, k + 1)
        RECURSIVE dumps_elements(_, _, _)
        dumps_elements(res, level, k) ==
            IF k > Len(res) THEN <<>>
            ELSE (IF k = 1 THEN <<>> ELSE <<",">>)
                 \o newline_indent(level + 1)
                 \o dumps_record(res[k], level + 1)
                 \o dumps_elements(res, level, k + 1)
    IN  <<"{">>
        \o member("metadata", 1)
        \o <<"{">> \o dumps_metadata(data.metadata, 1, 1) \o newline_indent(1) \o <<"}", ",">>
        \o member("url", 1) \o json_str(data.url) \o <<",">>
        \o member("scraped_at", 1) \o json_str(<<data.scraped_at>>) \o <<",">>
        \o member("total_elements", 1) \o str_int(data.total_elements) \o <<",">>
        \o member("elements", 1)
        \o (IF data.elements = <<>> THEN <<"[", "]">>
            ELSE <<"[">> \o dumps_elements(data.elements, 1, 1)
                 \o newline_indent(1) \o <<"]">>)
        \o newline_indent(0) \o <<"}">>

\* json.loads raises JSONDecodeError: ok is FALSE.
Failed == [ok |-> FALSE, val |-> <<>>, next |-> 0]

\* json.loads(text): the value, read from the first character to the last.
\* A value is a string, an int without sign, true, false, null, an array or
\* an object; whitespace may stand around it; a control character may not
\* stand bare in a string.
json_loads(text) ==
    LET JsonWhitespace == {" ", "\n", "\t", "\r"}
        ControlChars == {"\n", "\t", "\r"}
        Parsed(v, n) == [ok |-> TRUE, val |-> v, next |-> n]
        RECURSIVE skip_ws(_, _)
        skip_ws(t, i) ==
            IF i <= Len(t) /\ t[i] \in JsonWhitespace THEN skip_ws(t, i + 1) ELSE i
        \* the string whose opening quote is before t[i]
        RECURSIVE scan_string(_, _, _)
        scan_string(t, i, acc) ==
            IF i > Len(t) THEN Failed
            ELSE IF t[i] = Quote THEN Parsed(acc, i + 1)
            ELSE IF t[i] = Backslash
                 THEN IF i < Len(t) /\ t[i + 1] \in DOMAIN UnescapeOf
                      THEN scan_string(t, i + 2, Append(acc, UnescapeOf[t[i + 1]]))
                      ELSE Failed
            ELSE IF t[i] \in ControlChars THEN Failed
            ELSE scan_string(t, i + 1, Append(acc, t[i]))
        DigitValue(c) == CHOOSE d \in 0..9 : Digits[d + 1] = c
        RECURSIVE scan_digits(_, _, _)
        scan_digits(t, i, n) ==
            IF i <= Len(t) /\ t[i] \in Range(Digits)
            THEN scan_digits(t, i + 1, 10 * n + DigitValue(t[i]))
            ELSE Parsed(n, i)
        \* a leading zero stands alone
        scan_number(t, i) ==
            IF t[i] = "0" /\ i < Len(t) /\ t[i + 1] \in Range(Digits) THEN Failed
            ELSE scan_digits(t, i, 0)
        RECURSIVE parse_value(_, _)
        RECURSIVE parse_members(_, _, _)
        RECURSIVE parse_elements(_, _, _)
        \* the members of an object after "{" or ",": "key": value, then "," or "}"
        parse_members(t, i, acc) ==
            LET j == skip_ws(t, i)
            IN  IF j > Len(t) \/ t[j] # Quote THEN Failed
                ELSE LET key == scan_string(t, j + 1, <<>>)
                         c == skip_ws(t, key.next)
                     IN  IF ~key.ok \/ c > Len(t) \/ t[c] # ":" THEN Failed
                         ELSE LET v == parse_value(t, c + 1)
                                  e == skip_ws(t, v.next)
                              IN  IF ~v.ok \/ e > Len(t) THEN Failed
                                  ELSE IF t[e] = "}"
                                       THEN Parsed((key.val :> v.val) @@ acc, e + 1)
                                  ELSE IF t[e] = ","
                                       THEN parse_members(t, e + 1,
                                                          (key.val :> v.val) @@ acc)
                                  ELSE Failed
        \* the elements of an array after "[" or ",": value, then "," or "]"
        parse_elements(t, i, acc) ==
            LET v == parse_value(t, i)
                e == skip_ws(t, v.next)
            IN  IF ~v.ok \/ e > Len(t) THEN Failed
                ELSE IF t[e] = "]" THEN Parsed(Append(acc, v.val), e + 1)
                ELSE IF t[e] = "," THEN parse_elements(t, e + 1, Append(acc, v.val))
                ELSE Failed
        parse_value(t, i) ==
            LET j == skip_ws(t, i)
                k == skip_ws(t, j + 1)
            IN  IF j > Len(t) THEN Failed
                ELSE IF t[j] = Quote THEN scan_string(t, j + 1, <<>>)
                ELSE IF t[j] = "{"
                     THEN IF k <= Len(t) /\ t[k] = "}" THEN Parsed(<<>>, k + 1)
                          ELSE parse_members(t, j + 1, <<>>)
                ELSE IF t[j] = "["
                     THEN IF k <= Len(t) /\ t[k] = "]" THEN Parsed(<<>>, k + 1)
                          ELSE parse_elements(t, j + 1, <<>>)
                ELSE IF t[j] \in Range(Digits) THEN scan_number(t, j)
                ELSE IF t[j] = "true" THEN Parsed(TRUE, j + 1)
                ELSE IF t[j] = "false" THEN Parsed(FALSE, j + 1)
                ELSE IF t[j] = "null" THEN Parsed(None, j + 1)
                ELSE Failed
        r == parse_value(text, 1)
    IN  IF r.ok /\ skip_ws(text, r.next) > Len(text) THEN r ELSE Failed

-----------------------------------------------------------------------------
(* scraper.py: the fetch.  What one attempt of session.get meets is an     *)
(* outcome: a response with its status, or a failure of the connection.    *)
(* The session retries as urllib3's Retry(total=3, status_forcelist=...)   *)
(* does, every other setting of Retry at its default.                      *)

\* Retry(total=3): the retries after the first attempt
RetryTotal == 3

status_forcelist == {429, 500, 502, 503, 504}

\* Retry.RETRY_AFTER_STATUS_CODES, honoured as respect_retry_after_header
\* defaults to True
RetryAfterStatusCodes == {413, 429, 503}

Response(status, retry_after) ==
    [kind |-> "response", status |-> status, retry_after |-> retry_after, cause |-> ""]

\* A DNS failure, a refused connection, a timeout.
Failure(cause) ==
    [kind |-> "failure", status |-> 0, retry_after |-> FALSE, cause |-> cause]

\* A RequestException raised past the retries of the adapter, while the
\* body of the response is read; message is str(e), "" when the exception
\* carries none.
Raised(message) ==
    [kind |-> "raised", status |-> 0, retry_after |-> FALSE, cause |-> message]

\* Retry.is_retry for a GET with `left` retries left
is_retry(o, left) ==
    /\ o.kind = "response"
    /\ \/ o.status \in status_forcelist
       \/ left > 0 /\ o.retry_after /\ o.status \in RetryAfterStatusCodes

\* The outcomes urlopen hands to Retry.increment: an error of the connection
\* or of the read, or a response is_retry accepts.
is_retried(o, left) == o.kind = "failure" \/ is_retry(o, left)

\* response.raise_for_status() passes
is_ok(o) == o.kind = "response" /\ o.status < 400

\* str(e) of the RequestException
error_text(o, left) ==
    IF o.kind = "raised" THEN (IF o.cause = "" THEN <<>> ELSE <<o.cause>>)
    ELSE IF o.kind = "failure" THEN <<"Max retries exceeded with url (Caused by ", o.cause, ")">>
    ELSE IF is_retry(o, left)
         THEN <<"Max retries exceeded with url (Caused by ResponseError('too many ">>
              \o str_int(o.status) \o <<" error responses'))">>
    ELSE str_int(o.status) \o <<" Error for url">>

\* The headers argument: None, a dict, or whatever else json.loads read;
\* type is type(headers).__name__ and truth is bool(headers).
NoHeaders == [is_none |-> TRUE, type |-> "NoneType", truth |-> FALSE, dict |-> <<>>]

Headers(d) == [is_none |-> FALSE, type |-> "dict", truth |-> DOMAIN d # {}, dict |-> d]

\* A list, a str, an int or a bool: it has no items
NotADict(type, truth) == [is_none |-> FALSE, type |-> type, truth |-> truth, dict |-> <<>>]

\* PreparedRequest.prepare_headers: `if headers: for header in headers.items()`
\* raises AttributeError for a true value that is no mapping
prepare_headers_raises(hdrs) == hdrs.type \notin {"NoneType", "dict"} /\ hdrs.truth

UserAgent ==
    "Mozilla/5.0 (Windows NT 10.0; Win64; x64) AppleWebKit/537.36 (KHTML, like Gecko) Chrome/91.0.4472.124 Safari/537.36"

DefaultHeaders == (<<"User-Agent">> :> <<UserAgent>>)

\* if headers is None: headers = {"User-Agent": ...}
scrape_headers(hdrs) == IF hdrs.is_none THEN DefaultHeaders ELSE hdrs.dict

\* soup.find(name): the first element of that name, 0 (None) when there is none
find_name(pg, sp, name) ==
    LET hits == {j \in sp : pg[j].tag = name}
    IN  IF hits = {} THEN 0 ELSE CHOOSE j \in hits : \A k \in hits : j <= k

\* soup.find(name, attrs={key: True})
find_has_attr(pg, sp, name, key) ==
    LET hits == {j \in sp : pg[j].tag = name /\ key \in DOMAIN pg[j].attrs}
    IN  IF hits = {} THEN 0 ELSE CHOOSE j \in hits : \A k \in hits : j <= k

\* soup.find(name, attrs={key: val})
find_attr(pg, sp, name, key, val) ==
    LET hits == {j \in sp : /\ pg[j].tag = name
                            /\ key \in DOMAIN pg[j].attrs
                            /\ pg[j].attrs[key] = val}
    IN  IF hits = {} THEN 0 ELSE CHOOSE j \in hits : \A k \in hits : j <= k

attr_of_or_none(pg, j, attr) == IF j = 0 THEN None ELSE get(pg[j], attr, None)

\* page_metadata[key] = tag.get(attr, "") if tag
attr_of(pg, j, attr) == IF j = 0 THEN <<>> ELSE get(pg[j], attr, <<>>)

\* The page_metadata scrape_website returns with the tree.
extract_page_metadata(pg, sp) ==
    [ title |-> IF find_name(pg, sp, "title") = 0 THEN <<>>
                ELSE strip(get_text(pg, sp, find_name(pg, sp, "title"))),
      description |-> attr_of(pg, find_attr(pg, sp, "meta", "name", "description"), "content"),
      keywords |-> attr_of(pg, find_attr(pg, sp, "meta", "name", "keywords"), "content"),
      author |-> attr_of(pg, find_attr(pg, sp, "meta", "name", "author"), "content"),
      canonical |-> attr_of(pg, find_attr(pg, sp, "link", "rel", "canonical"), "href"),
      robots |-> attr_of(pg, find_attr(pg, sp, "meta", "name", "robots"), "content"),
      og_title |-> attr_of(pg, find_attr(pg, sp, "meta", "property", "og:title"), "content"),
      og_description |->
          attr_of(pg, find_attr(pg, sp, "meta", "property", "og:description"), "content"),
      og_image |-> attr_of(pg, find_attr(pg, sp, "meta", "property", "og:image"), "content"),
      lang |-> attr_of(pg, find_name(pg, sp, "html"), "lang"),
      charset |-> attr_of(pg, find_has_attr(pg, sp, "meta", "charset"), "charset") ]

\* time.strftime("%Y-%m-%d %H:%M:%S"): the readings of the clock, one atom each
Times == <<"2024-01-01 00:00:00", "2024-01-01 00:00:01">>

\* The readings of the Text, the Markdown and the JSON Renderer when the
\* second does not change between them.
NoTick == <<Times[1], Times[1], Times[1]>>

\* The readings of one run: the clock does not go back.
Clocks ==
    {<<Times[t[1]], Times[t[2]], Times[t[3]]>> :
        t \in {x \in (1..2) \X (1..2) \X (1..2) : x[1] <= x[2] /\ x[2] <= x[3]}}

\* One st.error, st.warning or st.success of the run.
Message(level, text) == [level |-> level, text |-> text]

-----------------------------------------------------------------------------
(* ui.py, main.py, utils.py: the sorting and the paging of the records.    *)

\* "Sort by:" and "Items per page:"
SortOptions == {"order", "length_desc", "length_asc", "tag_type"}

ItemsPerPageOptions == {10, 25, 50, 100}

\* The tag names of the pages, in the order Python compares strings.
tag_names ==
    << "a", "article", "button", "div", "em", "footer", "form",
       "h1", "h2", "h3", "h4", "h5", "h6", "header", "html", "input",
       "label", "li", "link", "main", "meta", "nav", "noscript", "p",
       "section", "span", "td", "th", "title" >>

tag_rank(tag) == CHOOSE n \in 1..Len(tag_names) : tag_names[n] = tag

\* list.sort puts a before b: its key is the greater one under reverse=True,
\* the smaller one without it.
sorts_before(a, b, by) ==
    CASE by = "length_desc" -> a.length > b.length
      [] by = "length_asc" -> a.length < b.length
      [] by = "tag_type" ->
            \/ tag_rank(a.tag) > tag_rank(b.tag)
            \/ tag_rank(a.tag) = tag_rank(b.tag) /\ a.length > b.length
      [] OTHER -> FALSE

\* list.sort is stable, with reverse=True too: a record goes behind the
\* records it does not sort before.
RECURSIVE insert_sorted(_, _, _)
insert_sorted(sorted, r, by) ==
    IF sorted = <<>> THEN <<r>>
    ELSE IF sorts_before(r, Head(sorted), by) THEN <<r>> \o sorted
    ELSE <<Head(sorted)>> \o insert_sorted(Tail(sorted), r, by)

sort_by_length(res, by) ==
    LET RECURSIVE sorted_to(_)
        sorted_to(k) ==
            IF k = 0 THEN <<>> ELSE insert_sorted(sorted_to(k - 1), res[k], "length_desc")
    IN  sorted_to(Len(res))

\* if sort_by == "length_desc": results.sort(...) elif ... : the list after it
sort_results(res, by) ==
    LET RECURSIVE sorted_to(_)
        sorted_to(k) ==
            IF k = 0 THEN <<>> ELSE insert_sorted(sorted_to(k - 1), res[k], by)
    IN  IF by \in {"length_desc", "length_asc", "tag_type"} THEN sorted_to(Len(res))
        ELSE res

\* total_pages = (len(results) - 1) // items_per_page + 1
total_pages(res, per_page) == (Len(res) - 1) \div per_page + 1

\* s[start:stop]
py_slice(s, start, stop) == SubSeq(s, start + 1, IF stop < Len(s) THEN stop ELSE Len(s))

\* The pages "Page:" offers; without the select box the one page shown.
page_choices(res, per_page) ==
    IF total_pages(res, per_page) > 1 THEN 1..total_pages(res, per_page) ELSE {1}

page_results_with_overlap(res, per_page, n) ==
    IF total_pages(res, per_page) > 1
    THEN py_slice(res, (n - 1) * per_page - (n - 1), (n - 1) * per_page - (n - 1) + per_page)
    ELSE res

\* page_results
page_results_of(res, per_page, n) ==
    IF total_pages(res, per_page) > 1
    THEN py_slice(res, (n - 1) * per_page, (n - 1) * per_page + per_page)
    ELSE res

-----------------------------------------------------------------------------
(* Inputs: the pages a server may answer with and the values of the form.  *)

Node(tag, attrs, text) == [tag |-> tag, attrs |-> attrs, text |-> text, parent |-> 0]

NoAttrs == << >>

\* Only these elements hold child elements in the pages of the model.
Containers == {"div", "noscript"}

\* A page: a sequence of nodes, each placed at top level, as the child of the
\* node before it, or as the next sibling of the node before it.
Place(kinds, nest) ==
    LET RECURSIVE build(_, _)
        build(acc, i) ==
            IF i > Len(kinds) THEN acc
            ELSE LET par == CASE nest[i] = "child" -> i - 1
                              [] nest[i] = "sibling" -> acc[i - 1].parent
                              [] OTHER -> 0
                 IN  build(Append(acc, [kinds[i] EXCEPT !.parent = par]), i + 1)
    IN  build(<<>>, 1)

WellNested(kinds, nest) ==
    \A i \in 1..Len(kinds) :
        /\ nest[i] = "child" => i > 1 /\ kinds[i - 1].tag \in Containers
        /\ nest[i] = "sibling" => i > 2 /\ nest[i - 1] = "child"

Nestings(kinds) ==
    {nest \in [1..Len(kinds) -> {"top", "child", "sibling"}] : WellNested(kinds, nest)}

PagesOver(kindset, maxlen) ==
    UNION {{Place(kinds, nest) : nest \in Nestings(kinds)} :
           kinds \in UNION {[1..n -> kindset] : n \in 1..maxlen}}

TextChars == {"g", "O", " ", "\n"}

AllTexts(maxlen) == UNION {[1..n -> TextChars] : n \in 0..maxlen}

T_Go == <<"G", "o">>
T_Next == <<"N", "e", "x", "t">>
T_Hi == <<"H", "i">>

\* Pages for selection: several tags, a repeated id, nesting and a tag
\* outside the default list (em).
SelectKinds ==
    { Node("p", NoAttrs, T_Hi),
      Node("a", [id |-> "nx", href |-> <<"/", "x">>], T_Next),
      Node("button", [id |-> "go"], T_Go),
      Node("div", [id |-> "go"], <<>>),
      Node("em", NoAttrs, <<"e">>) }

\* Pages for the script stripping: an element it removes, around others.
ScriptKinds ==
    { Node("p", NoAttrs, T_Hi),
      Node("div", [id |-> "go"], <<>>),
      Node("noscript", NoAttrs, <<"n">>) }

TagInputs ==
    [ none |-> << <<>> >>,
      p |-> << <<"p">> >>,
      a_button |-> << <<" ", "a">>, <<"button", " ">>, <<" ">> >>,
      em_p |-> << <<"em">>, <<"p">> >>,
      zz |-> << <<"zz">> >> ]

IdInputs ==
    [ none |-> << <<>> >>,
      go |-> << <<"go">> >>,
      nx_zz_go |-> << <<" ", "nx">>, <<"zz">>, <<"go", " ">> >>,
      zz |-> << <<"zz">> >> ]

\* The pairs of a tag filter and an id filter.
FilterInputs ==
    { <<TagInputs.none, IdInputs.none>>,
      <<TagInputs.p, IdInputs.none>>,
      <<TagInputs.none, IdInputs.go>>,
      <<TagInputs.a_button, IdInputs.nx_zz_go>>,
      <<TagInputs.a_button, IdInputs.none>>,
      <<TagInputs.em_p, IdInputs.go>>,
      <<TagInputs.zz, IdInputs.zz>>,
      <<TagInputs.zz, IdInputs.none>> }

\* Pages for the text filter and the normalisation: one paragraph with any
\* text, alone or inside a div that has text of its own.
TextPages ==
    {<<Node("p", NoAttrs, t)>> : t \in AllTexts(MaxTextLen)}
    \cup {Place(<<Node("div", NoAttrs, <<"O", "\n">>), Node("p", NoAttrs, t)>>,
                <<"top", "child">>) : t \in AllTexts(MaxTextLen - 1)}

SearchInputs ==
    { << <<"g">> >>,
      << <<" ", "O", " ">> >>,
      << <<"g", "o">>, <<" ">>, <<"G">> >>,
      << <<"g", " ", "o">> >> }

MatchTypes == {"contains", "starts_with", "ends_with", "exact"}

\* Pages for the length filter: paragraphs whose normalised texts have
\* lengths 0, 1, 2 and 3.
ExtractKinds ==
    { Node("p", NoAttrs, <<" ">>),
      Node("p", NoAttrs, <<" ", "g", "\n">>),
      Node("p", NoAttrs, T_Go),
      Node("p", NoAttrs, <<"g", "\t", " ", "O">>) }

\* Pages for the renderers: one anchor or form with any of the hrefs, and
\* sequences of records of several tags.
Hrefs ==
    { <<"/", "x">>,
      <<"#", "s", "e", "c">>,
      <<"y", "/", "z">>,
      <<"h", "t", "t", "p", "s", ":", "/", "/", "e", "x", "t", ".", "c", "o", "m">>,
      <<"h", "t", "t", "p", ":", "/", "/", "e", ".", "c">>,
      <<"m", "a", "i", "l", "t", "o", ":", "m">>,
      <<"t", "e", "l", ":", "1">>,
      <<"/", "/", "x">>,
      <<".", "/", "y">>,
      <<"?", "q">>,
      <<>> }

\* One page with a link of every kind and a form.
LinksPage ==
    << Node("a", [href |-> <<"/", "x">>], T_Next),
       Node("a", [href |-> <<"#", "s", "e", "c">>], T_Go),
       Node("a", [href |-> <<"y", "/", "z">>], T_Hi),
       Node("a", [href |-> <<"h", "t", "t", "p", "s", ":", "/", "/", "e", "x", "t", ".", "c", "o", "m">>],
            <<"e">>),
       Node("form", [action |-> <<"/", "s">>, method |-> "post"], <<"O">>) >>

LinkPages ==
    {<<Node("a", [href |-> h], T_Next)>> : h \in Hrefs}
    \cup {<<Node("form", [action |-> h], T_Go), Node("a", [id |-> "nx"], T_Next)>> : h \in Hrefs}
    \cup {LinksPage}

RenderKinds ==
    { Node("button", [id |-> "go"], T_Go),
      Node("a", [href |-> <<"/", "x">>], T_Next),
      Node("h2", NoAttrs, T_Hi),
      Node("td", NoAttrs, <<"c">>),
      Node("article", NoAttrs, <<"r">>) }

Urls ==
    { <<"h", "t", "t", "p", "s", ":", "/", "/", "a", ".", "c", "o", "m", "/", "p">>,
      <<"h", "t", "t", "p", ":", "/", "/", "b", ".", "i", "o">> }

DefaultUrl == <<"h", "t", "t", "p", "s", ":", "/", "/", "a", ".", "c", "o", "m", "/", "p">>

Empty == << <<>> >>

\* The values of the form in Simple mode (ui.py).
SimpleMinLength == 10

\* Every attempt is answered with the page.
AlwaysOk == [k \in 1..(RetryTotal + 1) |-> Response(200, FALSE)]

\* What the attempts of a fetch meet: any mix of a page, a 404, a 503, a 413
\* with Retry-After and a refused connection, or one outcome at every attempt
\* (the 300 names no Location: the session hands it back as the response; one
\* exception carries a message, one carries none).
Servers ==
    [1..(RetryTotal + 1) ->
        { Response(200, FALSE), Response(404, FALSE), Response(503, FALSE),
          Response(413, TRUE), Failure("refused") }]
    \cup {[k \in 1..(RetryTotal + 1) |-> o] :
            o \in { Response(429, FALSE), Response(429, TRUE), Response(500, FALSE),
                    Response(501, FALSE), Response(502, FALSE), Response(504, FALSE),
                    Response(413, FALSE), Response(503, TRUE), Response(300, FALSE),
                    Failure("dns"), Failure("timeout"),
                    Raised("Connection broken"), Raised("") }}

\* Texts of the custom headers input: nothing, JSON objects of strings,
\* texts json.loads rejects, and JSON values that are no object.
HeaderTexts ==
    { <<>>,
      <<"[", "1", "]">>, <<Quote, "x", Quote>>, <<"5">>, <<"true">>,
      <<"[", "]">>, <<"0">>, <<"null">>,
      <<"{", Quote, "k", Quote, ":", " ", Quote, "v", Quote, "}">>,
      <<" ", "{", "}", "\n">>,
      <<"{", Quote, "k", Quote, ":", " ", Quote, "v", Quote>>,
      <<"{", "k", ":", " ", "v", "}">>,
      <<"k", "=", "v">>,
      <<"{", Quote, "k", Quote, ":", " ", Quote, "v", Quote, ",", "}">>,
      <<" ">> }

\* Pages for the sorting: two tags that share a length, one tag with three
\* lengths, two records with one sort key.
SortKinds ==
    { Node("p", NoAttrs, T_Hi),
      Node("p", NoAttrs, <<"g">>),
      Node("p", NoAttrs, T_Go),
      Node("a", [href |-> <<"/", "x">>], T_Next),
      Node("button", NoAttrs, T_Go) }

T_Escapes == <<"a", Quote, Backslash, "n">>

MetadataPages ==
    { Place(<< Node("html", [lang |-> <<"e", "n">>], <<>>),
               Node("title", NoAttrs, <<" ", "T", Quote, " ">>),
               Node("meta", [charset |-> <<"u", "8">>], <<>>),
               Node("meta", [name |-> "description", content |-> <<"d", Backslash>>], <<>>),
               Node("meta", [property |-> "og:title", content |-> <<"o", "\n">>], <<>>),
               Node("link", [rel |-> "canonical", href |-> <<"/", "c">>], <<>>),
               Node("p", NoAttrs, T_Escapes) >>,
            <<"top", "child", "sibling", "sibling", "sibling", "sibling", "sibling">>),
      << Node("title", NoAttrs, <<>>),
         Node("meta", [name |-> "description"], <<>>),
         Node("meta", [name |-> "keywords", content |-> <<"k">>], <<>>),
         Node("meta", [name |-> "keywords", content |-> <<"z">>], <<>>),
         Node("meta", [name |-> "robots", content |-> <<"r">>], <<>>),
         Node("meta", [name |-> "author", content |-> <<"A">>], <<>>),
         Node("meta", [property |-> "og:description", content |-> <<"D">>], <<>>),
         Node("meta", [property |-> "og:image", content |-> <<"/", "i">>], <<>>),
         Node("button", NoAttrs, T_Go),
         Node("a", [href |-> <<"/", Quote>>], T_Next) >>,
      << Node("noscript", NoAttrs, <<>>),
         Node("title", NoAttrs, <<"T">>),
         Node("p", NoAttrs, <<Backslash, "t">>) >>,
      << Node("p", NoAttrs, <<"a", "\n", "b">>), Node("form", NoAttrs, T_Go) >> }

Inputs ==
    \* selection: tag and id filters over pages of several elements
    {[url |-> DefaultUrl, remove_scripts |-> TRUE, tag_filter |-> f[1],
      id_filter |-> f[2], search_terms |-> Empty, match_type |-> "contains",
      min_length |-> 0, page |-> pg,
      custom_headers |-> <<>>, server |-> AlwaysOk,
      sort_by |-> "order", items_per_page |-> 25, clock |-> NoTick] :
        f \in FilterInputs, pg \in PagesOver(SelectKinds, MaxElems)}
    \cup
    \* scripts stripped or left in the tree
    [url : {DefaultUrl}, remove_scripts : BOOLEAN,
     tag_filter : {Empty, << <<"p">> >>, << <<"noscript">>, <<"div">> >>},
     id_filter : {Empty, << <<"go">> >>}, search_terms : {Empty}, match_type : {"contains"},
     min_length : {0}, page : PagesOver(ScriptKinds, MaxElems),
     custom_headers : {<<>>}, server : {AlwaysOk},
     sort_by : {"order"}, items_per_page : {25}, clock : {NoTick}]
    \cup
    \* Simple mode
    [url : {DefaultUrl}, remove_scripts : {TRUE}, tag_filter : {None},
     id_filter : {None}, search_terms : {None}, match_type : {"contains"},
     min_length : {SimpleMinLength}, page : PagesOver(SelectKinds, MaxElems - 1),
     custom_headers : {None}, server : {AlwaysOk},
     sort_by : {"order"}, items_per_page : {25}, clock : {NoTick}]
    \cup
    \* text filter: search terms and match types over any text
    [url : {DefaultUrl}, remove_scripts : {TRUE}, tag_filter : {Empty},
     id_filter : {Empty}, search_terms : SearchInputs, match_type : MatchTypes,
     min_length : {0}, page : TextPages,
     custom_headers : {<<>>}, server : {AlwaysOk},
     sort_by : {"order"}, items_per_page : {25}, clock : {NoTick}]
    \cup
    \* normalisation and minimum length over any text
    [url : {DefaultUrl}, remove_scripts : {TRUE}, tag_filter : {Empty},
     id_filter : {Empty}, search_terms : {Empty}, match_type : {"contains"},
     min_length : 0..MaxMinLength, page : TextPages \cup PagesOver(ExtractKinds, MaxElems),
     custom_headers : {<<>>}, server : {AlwaysOk},
     sort_by : {"order"}, items_per_page : {25}, clock : {NoTick}]
    \cup
    \* renderers: links and forms
    [url : Urls, remove_scripts : {TRUE}, tag_filter : {Empty},
     id_filter : {Empty}, search_terms : {Empty}, match_type : {"contains"},
     min_length : {0}, page : LinkPages,
     custom_headers : {<<>>}, server : {AlwaysOk},
     sort_by : {"order"}, items_per_page : {25}, clock : {NoTick}]
    \cup
    \* renderers: records of several tags
    [url : {DefaultUrl}, remove_scripts : {TRUE}, tag_filter : {Empty},
     id_filter : {Empty}, search_terms : {Empty}, match_type : {"contains"},
     min_length : {0}, page : PagesOver(RenderKinds, MaxElems),
     custom_headers : {<<>>}, server : {AlwaysOk},
     sort_by : {"order"}, items_per_page : {25}, clock : {NoTick}]
    \cup
    \* sorting: records of equal and different lengths and tags
    [url : {DefaultUrl}, remove_scripts : {TRUE}, tag_filter : {Empty},
     id_filter : {Empty}, search_terms : {Empty}, match_type : {"contains"},
     min_length : {0}, page : PagesOver(SortKinds, MaxElems),
     custom_headers : {<<>>}, server : {AlwaysOk},
     sort_by : SortOptions, items_per_page : {25}, clock : {NoTick}]
    \cup
    \* paging: each number of items per page
    [url : {DefaultUrl}, remove_scripts : {TRUE}, tag_filter : {Empty},
     id_filter : {Empty}, search_terms : {Empty}, match_type : {"contains"},
     min_length : {0}, page : {<<Node("p", NoAttrs, T_Hi), Node("a", NoAttrs, T_Next)>>},
     custom_headers : {<<>>}, server : {AlwaysOk},
     sort_by : {"order", "length_desc"}, items_per_page : ItemsPerPageOptions,
     clock : {NoTick}]
    \cup
    \* no URL entered
    [url : {<<>>}, remove_scripts : {TRUE}, tag_filter : {Empty},
     id_filter : {Empty}, search_terms : {Empty}, match_type : {"contains"},
     min_length : {0}, page : {<<Node("p", NoAttrs, T_Hi)>>},
     custom_headers : {<<>>}, server : {AlwaysOk},
     sort_by : {"order"}, items_per_page : {25}, clock : {NoTick}]
    \cup
    \* the fetch: what the attempts meet
    [url : {DefaultUrl}, remove_scripts : {TRUE}, tag_filter : {Empty},
     id_filter : {Empty}, search_terms : {Empty}, match_type : {"contains"},
     min_length : {0}, page : {<<Node("p", NoAttrs, T_Hi)>>},
     custom_headers : {<<>>}, server : Servers,
     sort_by : {"order"}, items_per_page : {25}, clock : {NoTick}]
    \cup
    \* custom headers
    [url : {DefaultUrl}, remove_scripts : {TRUE}, tag_filter : {Empty},
     id_filter : {Empty}, search_terms : {Empty}, match_type : {"contains"},
     min_length : {0}, page : {<<Node("p", NoAttrs, T_Hi)>>},
     custom_headers : HeaderTexts \cup {None},
     server : {AlwaysOk, [k \in 1..(RetryTotal + 1) |-> Response(404, FALSE)]},
     sort_by : {"order"}, items_per_page : {25}, clock : {NoTick}]
    \cup
    \* metadata, and texts json.dumps escapes
    [url : {DefaultUrl}, remove_scripts : BOOLEAN, tag_filter : {Empty},
     id_filter : {Empty}, search_terms : {Empty}, match_type : {"contains"},
     min_length : {0}, page : MetadataPages,
     custom_headers : {<<>>}, server : {AlwaysOk},
     sort_by : {"order"}, items_per_page : {25}, clock : Clocks]

-----------------------------------------------------------------------------
(* The request.                                                            *)

Init ==
    /\ \E in \in Inputs :
        /\ url = in.url
        /\ remove_scripts = in.remove_scripts
        /\ tag_filter = in.tag_filter
        /\ id_filter = in.id_filter
        /\ search_terms = in.search_terms
        /\ match_type = in.match_type
        /\ min_length = in.min_length
        /\ page = in.page
        /\ custom_headers = in.custom_headers
        /\ server = in.server
        /\ sort_by = in.sort_by
        /\ items_per_page = in.items_per_page
        /\ clock = in.clock
    /\ pc = "ready"
    /\ soup = {}
    /\ error = None
    /\ elements = <<>>
    /\ results = <<>>
    /\ text_lines = <<>>
    /\ markdown_lines = <<>>
    /\ json_data = None
    /\ text_content = None
    /\ headers = NoHeaders
    /\ request_headers = None
    /\ attempts = 0
    /\ messages = <<>>
    /\ page_metadata = None
    /\ json_content = None
    /\ page_number = 0
    /\ page_results = <<>>

\* if not url: st.error("Please enter a URL"); st.stop()
NoUrl ==
    /\ pc = "ready"
    /\ url = <<>>
    /\ pc' = "stopped"
    /\ messages' = Append(messages, Message("error", <<"Please enter a URL">>))
    /\ UNCHANGED <<url, remove_scripts, tag_filter, id_filter, search_terms,
                   match_type, min_length, page, soup, error, elements, results,
                   text_lines, markdown_lines, json_data, text_content,
                   custom_headers, server, headers, request_headers, attempts,
                   page_metadata, json_content,
                   sort_by, items_per_page, page_number, page_results,
                   clock>>

\* The Python type of the value json.loads reads from a text it accepts: the
\* first character that is not white space decides.
json_type(text) ==
    LET marks == {i \in 1..Len(text) : text[i] \notin {" ", "\n", "\t", "\r"}}
        c == text[CHOOSE i \in marks : \A j \in marks : i <= j]
    IN  IF marks = {} THEN "NoneType"
        ELSE IF c = "{" THEN "dict"
        ELSE IF c = "[" THEN "list"
        ELSE IF c = Quote THEN "str"
        ELSE IF c \in Range(Digits) THEN "int"
        ELSE IF c \in {"true", "false"} THEN "bool"
        ELSE "NoneType"

\* headers = json.loads(custom_headers), with the type it has
loaded_headers(text) ==
    LET v == json_loads(text).val
        t == json_type(text)
    IN  IF t = "dict" THEN Headers(v)
        ELSE IF t = "list" THEN NotADict("list", Len(v) > 0)
        ELSE IF t = "str" THEN NotADict("str", Len(v) > 0)
        ELSE IF t = "int" THEN NotADict("int", v # 0)
        ELSE IF t = "bool" THEN NotADict("bool", v)
        ELSE NoHeaders

\* The headers of the handler: None, or what json.loads reads.
parse_headers_unchecked(text) ==
    IF text # None /\ text # <<>> THEN loaded_headers(text) ELSE NoHeaders

parse_headers(text) ==
    IF text # None /\ text # <<>> /\ json_loads(text).ok
    THEN loaded_headers(text)
    ELSE NoHeaders

\* headers = None; if custom_headers: try json.loads, except JSONDecodeError:
\* st.warning
ParseHeaders ==
    /\ pc = "ready"
    /\ url # <<>>
    /\ pc' = "fetching"
    /\ headers' = parse_headers(custom_headers)
    /\ messages' =
          IF custom_headers # None /\ custom_headers # <<>> /\ ~json_loads(custom_headers).ok
          THEN Append(messages,
                      Message("warning",
                              <<"Invalid JSON in custom headers, using default headers">>))
          ELSE messages
    /\ UNCHANGED <<url, remove_scripts, tag_filter, id_filter, search_terms,
                   match_type, min_length, page, soup, error, elements, results,
                   text_lines, markdown_lines, json_data, text_content,
                   custom_headers, server, request_headers, attempts,
                   page_metadata, json_content,
                   sort_by, items_per_page, page_number, page_results,
                   clock>>

\* session.get(url, headers=headers) with a true value that is no mapping:
\* the AttributeError is no RequestException, scrape_website does not catch
\* it, no request is sent and the run ends on the traceback.
FetchRaises ==
    /\ pc = "fetching"
    /\ prepare_headers_raises(headers)
    /\ pc' = "crashed"
    /\ UNCHANGED <<url, remove_scripts, tag_filter, id_filter, search_terms,
                   match_type, min_length, page, soup, error, elements, results,
                   text_lines, markdown_lines, json_data, text_content,
                   custom_headers, server, headers, request_headers, attempts,
                   messages, page_metadata, json_content,
                   sort_by, items_per_page, page_number, page_results,
                   clock>>

\* session.get: an attempt the session retries
FetchRetry ==
    /\ pc = "fetching"
    /\ ~prepare_headers_raises(headers)
    /\ attempts < RetryTotal
    /\ ~is_ok(server[attempts + 1])
    /\ is_retried(server[attempts + 1], RetryTotal - attempts)
    /\ attempts' = attempts + 1
    /\ request_headers' = scrape_headers(headers)
    /\ UNCHANGED <<pc, url, remove_scripts, tag_filter, id_filter, search_terms,
                   match_type, min_length, page, soup, error, elements, results,
                   text_lines, markdown_lines, json_data, text_content,
                   custom_headers, server, headers, messages,
                   page_metadata, json_content,
                   sort_by, items_per_page, page_number, page_results,
                   clock>>

\* scrape_website returns the tree and the metadata
FetchOk ==
    /\ pc = "fetching"
    /\ ~prepare_headers_raises(headers)
    /\ is_ok(server[attempts + 1])
    /\ pc' = "fetched"
    /\ attempts' = attempts + 1
    /\ request_headers' = scrape_headers(headers)
    /\ soup' = 1..Len(page)
    /\ error' = None
    /\ page_metadata' = extract_page_metadata(page, 1..Len(page))
    /\ UNCHANGED <<url, remove_scripts, tag_filter, id_filter, search_terms,
                   match_type, min_length, page, elements, results,
                   text_lines, markdown_lines, json_data, text_content,
                   custom_headers, server, headers, messages, json_content,
                   sort_by, items_per_page, page_number, page_results,
                   clock>>

\* scrape_website returns (None, str(e), {}); if error: the handler reports
\* the error and stops.  An error that is the empty string is false: the
\* handler goes on with soup = None (the model keeps soup = {} there).
FetchError ==
    /\ pc = "fetching"
    /\ ~prepare_headers_raises(headers)
    /\ ~is_ok(server[attempts + 1])
    /\ ~(attempts < RetryTotal /\ is_retried(server[attempts + 1], RetryTotal - attempts))
    /\ attempts' = attempts + 1
    /\ request_headers' = scrape_headers(headers)
    /\ error' = error_text(server[attempts + 1], RetryTotal - attempts)
    /\ page_metadata' = <<>>
    /\ IF error' # <<>>
       THEN /\ pc' = "stopped"
            /\ messages' = Append(messages,
                                  Message("error", <<"Error scraping website: ">> \o error'))
       ELSE /\ pc' = "no_tree"
            /\ messages' = messages
    /\ UNCHANGED <<url, remove_scripts, tag_filter, id_filter, search_terms,
                   match_type, min_length, page, soup, elements, results,
                   text_lines, markdown_lines, json_data, text_content,
                   custom_headers, server, headers, json_content,
                   sort_by, items_per_page, page_number, page_results,
                   clock>>

\* soup is None past the error check: soup(["script", "style", "noscript"])
\* raises TypeError, and without the stripping soup.find_all in
\* filter_by_tags raises AttributeError; the run ends on the traceback.
DereferenceNone ==
    /\ pc = "no_tree"
    /\ pc' = "crashed"
    /\ UNCHANGED <<url, remove_scripts, tag_filter, id_filter, search_terms,
                   match_type, min_length, page, soup, error, elements, results,
                   text_lines, markdown_lines, json_data, text_content,
                   custom_headers, server, headers, request_headers, attempts,
                   messages, page_metadata, json_content,
                   sort_by, items_per_page, page_number, page_results,
                   clock>>

\* if remove_scripts: decompose every script, style and noscript
StripScripts ==
    /\ pc = "fetched"
    /\ pc' = "stripped"
    /\ soup' = IF remove_scripts THEN decompose_scripts(page, soup) ELSE soup
    /\ UNCHANGED <<url, remove_scripts, tag_filter, id_filter, search_terms,
                   match_type, min_length, page, error, elements, results,
                   text_lines, markdown_lines, json_data, text_content,
                   custom_headers, server, headers, request_headers, attempts,
                   messages, page_metadata, json_content,
                   sort_by, items_per_page, page_number, page_results,
                   clock>>

\* Python truth of a text input: None and "" are false.
Truthy(input) == input # None /\ input # Empty

\* [x.strip() for x in input.split(",") if x.strip()]
RECURSIVE split_strip(_)
split_strip(items) ==
    IF items = <<>> THEN <<>>
    ELSE (IF strip(Head(items)) # <<>> THEN <<strip(Head(items))>> ELSE <<>>)
         \o split_strip(Tail(items))

default_tags_links_first ==
    << <<"a">>, <<"p">>, <<"h1">>, <<"h2">>, <<"h3">>, <<"h4">>, <<"h5">>, <<"h6">>,
       <<"div">>, <<"span">>, <<"article">>, <<"section">>,
       <<"button">>, <<"input">>, <<"form">>, <<"li">>, <<"td">>, <<"th">>,
       <<"label">>, <<"nav">>, <<"header">>, <<"footer">>, <<"main">> >>

default_tags ==
    << <<"p">>, <<"h1">>, <<"h2">>, <<"h3">>, <<"h4">>, <<"h5">>, <<"h6">>,
       <<"div">>, <<"span">>, <<"article">>, <<"section">>, <<"a">>,
       <<"button">>, <<"input">>, <<"form">>, <<"li">>, <<"td">>, <<"th">>,
       <<"label">>, <<"nav">>, <<"header">>, <<"footer">>, <<"main">> >>

\* The selection of the handler: tag matches, then id matches, and the default
\* tags when that list is empty.
select_elements(pg, sp, tagf, idf) ==
    LET by_tag == IF Truthy(tagf)
                  THEN filter_by_tags(pg, sp, split_strip(tagf)) ELSE <<>>
        by_id == IF Truthy(idf)
                 THEN filter_by_class_id(pg, sp, None, split_strip(idf)) ELSE <<>>
        chosen == by_tag \o by_id
    IN  IF chosen = <<>> THEN filter_by_tags(pg, sp, default_tags) ELSE chosen

Select ==
    /\ pc = "stripped"
    /\ pc' = "selected"
    /\ elements' = select_elements(page, soup, tag_filter, id_filter)
    /\ UNCHANGED <<url, remove_scripts, tag_filter, id_filter, search_terms,
                   match_type, min_length, page, soup, error, results,
                   text_lines, markdown_lines, json_data, text_content,
                   custom_headers, server, headers, request_headers, attempts,
                   messages, page_metadata, json_content,
                   sort_by, items_per_page, page_number, page_results,
                   clock>>

\* if search_terms: elements = filter_by_text_content(elements, terms, match_type)
TextFilter ==
    /\ pc = "selected"
    /\ pc' = "filtered"
    /\ elements' = IF Truthy(search_terms)
                   THEN filter_by_text_content(page, soup, elements,
                                               split_strip(search_terms), match_type)
                   ELSE elements
    /\ UNCHANGED <<url, remove_scripts, tag_filter, id_filter, search_terms,
                   match_type, min_length, page, soup, error, results,
                   text_lines, markdown_lines, json_data, text_content,
                   custom_headers, server, headers, request_headers, attempts,
                   messages, page_metadata, json_content,
                   sort_by, items_per_page, page_number, page_results,
                   clock>>

\* results = extract_text_content(elements, min_length)
Extract ==
    /\ pc = "filtered"
    /\ pc' = "extracted"
    /\ results' = extract_text_content(page, soup, elements, min_length)
    /\ UNCHANGED <<url, remove_scripts, tag_filter, id_filter, search_terms,
                   match_type, min_length, page, soup, error, elements,
                   text_lines, markdown_lines, json_data, text_content,
                   custom_headers, server, headers, request_headers, attempts,
                   messages, page_metadata, json_content,
                   sort_by, items_per_page, page_number, page_results,
                   clock>>

\* st.success(f"Found {len(results)} text segments")
found_message(res) ==
    Message("success", <<"Found ">> \o str_int(Len(res)) \o <<" text segments">>)

no_matches_as_error == Message("error", <<"No text content found">>)

no_matches_message ==
    Message("warning",
            <<"No text content found matching your filters. Try adjusting your filter criteria.">>)

\* ui.py: the export buttons of a run that found records
ExportUi ==
    /\ pc = "extracted"
    /\ results # <<>>
    /\ pc' = "exported_ui"
    /\ messages' = Append(messages, found_message(results))
    /\ text_content' = join_texts(results)
    /\ markdown_lines' = create_markdown_content(results, url, page_metadata, clock[2])
    /\ json_data' = make_json_data(results, url, page_metadata, clock[3])
    /\ json_content' = json_dumps(json_data')
    /\ UNCHANGED <<url, remove_scripts, tag_filter, id_filter, search_terms,
                   match_type, min_length, page, soup, error, elements, results,
                   text_lines, custom_headers, server, headers, request_headers,
                   attempts, page_metadata,
                   sort_by, items_per_page, page_number, page_results,
                   clock>>

\* main.py: the export buttons of a run that found records
ExportMain ==
    /\ pc = "extracted"
    /\ results # <<>>
    /\ pc' = "exported_main"
    /\ messages' = Append(messages, found_message(results))
    /\ text_content' = join_texts(results)
    /\ markdown_lines' = main_create_markdown_content(results, url, page_metadata, clock[2])
    /\ json_data' = make_json_data(results, url, page_metadata, clock[3])
    /\ json_content' = json_dumps(json_data')
    /\ UNCHANGED <<url, remove_scripts, tag_filter, id_filter, search_terms,
                   match_type, min_length, page, soup, error, elements, results,
                   text_lines, custom_headers, server, headers, request_headers,
                   attempts, page_metadata,
                   sort_by, items_per_page, page_number, page_results,
                   clock>>

\* utils.display_results: the export buttons for the records of the run
DisplayResults ==
    /\ pc = "extracted"
    /\ results # <<>>
    /\ pc' = "displayed"
    /\ messages' = Append(messages, found_message(results))
    /\ text_lines' = create_organized_text_content(results, url, page_metadata, clock[1])
    /\ markdown_lines' = create_markdown_content(results, url, page_metadata, clock[2])
    /\ json_data' = make_json_data(results, url, page_metadata, clock[3])
    /\ json_content' = json_dumps(json_data')
    /\ UNCHANGED <<url, remove_scripts, tag_filter, id_filter, search_terms,
                   match_type, min_length, page, soup, error, elements, results,
                   text_content, custom_headers, server, headers, request_headers,
                   attempts, page_metadata,
                   sort_by, items_per_page, page_number, page_results,
                   clock>>

\* ui.py, main.py: no record.  st.success comes before the test of results,
\* the warning after it.
NoMatches ==
    /\ pc = "extracted"
    /\ results = <<>>
    /\ pc' = "no_matches"
    /\ messages' = messages \o <<found_message(results), no_matches_message>>
    /\ UNCHANGED <<url, remove_scripts, tag_filter, id_filter, search_terms,
                   match_type, min_length, page, soup, error, elements, results,
                   text_lines, markdown_lines, json_data, text_content,
                   custom_headers, server, headers, request_headers, attempts,
                   page_metadata, json_content,
                   sort_by, items_per_page, page_number, page_results,
                   clock>>

\* utils.display_results: if not results: st.warning(...); return
DisplayNoMatches ==
    /\ pc = "extracted"
    /\ results = <<>>
    /\ pc' = "no_matches_displayed"
    /\ messages' = Append(messages, no_matches_message)
    /\ UNCHANGED <<url, remove_scripts, tag_filter, id_filter, search_terms,
                   match_type, min_length, page, soup, error, elements, results,
                   text_lines, markdown_lines, json_data, text_content,
                   custom_headers, server, headers, request_headers, attempts,
                   page_metadata, json_content,
                   sort_by, items_per_page, page_number, page_results,
                   clock>>

\* Where each application stands once the records are shown
shown_pc ==
    [exported_ui |-> "shown_ui", exported_main |-> "shown_main",
     displayed |-> "shown_displayed"]

ShowContentThenDump ==
    /\ pc \in DOMAIN shown_pc
    /\ pc' = shown_pc[pc]
    /\ results' = sort_results(results, sort_by)
    /\ json_data' = [json_data EXCEPT !.elements = results']
    /\ json_content' = json_dumps(json_data')
    /\ \E n \in page_choices(results', items_per_page) :
          /\ page_number' = n
          /\ page_results' = page_results_of(results', items_per_page, n)
    /\ UNCHANGED <<url, remove_scripts, tag_filter, id_filter, search_terms,
                   match_type, min_length, page, soup, error, elements,
                   text_lines, markdown_lines, text_content,
                   custom_headers, server, headers, request_headers, attempts,
                   messages, page_metadata, sort_by, items_per_page,
                   clock>>

\* ui.py, main.py, utils.display_results: "Extracted Content".  The records
\* are sorted in place; json_data["elements"] is that same list.
ShowContent ==
    /\ pc \in DOMAIN shown_pc
    /\ pc' = shown_pc[pc]
    /\ results' = sort_results(results, sort_by)
    /\ json_data' = [json_data EXCEPT !.elements = results']
    /\ \E n \in page_choices(results', items_per_page) :
          /\ page_number' = n
          /\ page_results' = page_results_of(results', items_per_page, n)
    /\ UNCHANGED <<url, remove_scripts, tag_filter, id_filter, search_terms,
                   match_type, min_length, page, soup, error, elements,
                   text_lines, markdown_lines, text_content,
                   custom_headers, server, headers, request_headers, attempts,
                   messages, page_metadata, json_content, sort_by, items_per_page,
                   clock>>

Next ==
    \/ NoUrl
    \/ ParseHeaders
    \/ FetchRaises
    \/ FetchRetry
    \/ FetchOk
    \/ FetchError
    \/ DereferenceNone
    \/ StripScripts
    \/ Select
    \/ TextFilter
    \/ Extract
    \/ ExportUi
    \/ ExportMain
    \/ DisplayResults
    \/ NoMatches
    \/ DisplayNoMatches
    \/ ShowContent

Spec == Init /\ [][Next]_vars

-----------------------------------------------------------------------------
(* The paging on lists longer than a page.  The lists stand for the records *)
(* of any run; the paging reads nothing else.                              *)

MaxRecords == 101

\* The record the extraction makes of the k-th paragraph of a page
PageRecord(k) == make_result(Node("p", NoAttrs, str_int(k)), str_int(k))

InitPages ==
    /\ pc = "paging"
    /\ \E n \in 1..MaxRecords : results = [k \in 1..n |-> PageRecord(k)]
    /\ items_per_page \in ItemsPerPageOptions
    /\ sort_by = "order"
    /\ url = DefaultUrl
    /\ remove_scripts = TRUE
    /\ tag_filter = Empty
    /\ id_filter = Empty
    /\ search_terms = Empty
    /\ match_type = "contains"
    /\ min_length = 0
    /\ page = <<>>
    /\ custom_headers = <<>>
    /\ server = AlwaysOk
    /\ soup = {}
    /\ error = None
    /\ elements = <<>>
    /\ text_lines = <<>>
    /\ markdown_lines = <<>>
    /\ json_data = None
    /\ text_content = None
    /\ headers = NoHeaders
    /\ request_headers = None
    /\ attempts = 0
    /\ messages = <<>>
    /\ page_metadata = None
    /\ json_content = None
    /\ page_number = 0
    /\ page_results = <<>>
    /\ clock = NoTick

\* total_pages, the "Page:" select box and page_results
Paginate ==
    /\ pc = "paging"
    /\ pc' = "paged"
    /\ \E n \in page_choices(results, items_per_page) :
          /\ page_number' = n
          /\ page_results' = page_results_of(results, items_per_page, n)
    /\ UNCHANGED <<url, remove_scripts, tag_filter, id_filter, search_terms,
                   match_type, min_length, page, soup, error, elements, results,
                   text_lines, markdown_lines, json_data, text_content,
                   custom_headers, server, headers, request_headers, attempts,
                   messages, page_metadata, json_content, sort_by, items_per_page,
                   clock>>

NextPages == Paginate

SpecPages == InitPages /\ [][NextPages]_vars

-----------------------------------------------------------------------------
(* Vocabulary of the properties, stated without the operators above.       *)

Min(S) == CHOOSE x \in S : \A y \in S : x <= y

Max(S) == CHOOSE x \in S : \A y \in S : x >= y

\* The k-th smallest member of a set of numbers.
Kth(S, k) == CHOOSE x \in S : Cardinality({y \in S : y <= x}) = k

Sorted(S) == [k \in 1..Cardinality(S) |-> Kth(S, k)]

NonBlank(s) == {i \in 1..Len(s) : s[i] \notin Whitespace}

\* s without its leading and trailing whitespace.
Trim(s) == IF NonBlank(s) = {} THEN <<>> ELSE SubSeq(s, Min(NonBlank(s)), Max(NonBlank(s)))

\* The words of s: its maximal runs of non-whitespace characters.
WordStarts(s) == {i \in NonBlank(s) : i = 1 \/ s[i - 1] \in Whitespace}

WordEnd(s, i) == Min({j \in i..Len(s) : j = Len(s) \/ s[j + 1] \in Whitespace})

WordsOf(s) ==
    [k \in 1..Cardinality(WordStarts(s)) |->
        SubSeq(s, Kth(WordStarts(s), k), WordEnd(s, Kth(WordStarts(s), k)))]

\* Length of s once every whitespace run is one space and s is trimmed.
NormalLength(s) ==
    Cardinality(NonBlank(s))
    + (IF WordStarts(s) = {} THEN 0 ELSE Cardinality(WordStarts(s)) - 1)

\* s with every whitespace run collapsed to one space, and trimmed.
RECURSIVE JoinWords(_)
JoinWords(ws) ==
    IF ws = <<>> THEN <<>>
    ELSE IF Len(ws) = 1 THEN ws[1]
    ELSE ws[1] \o <<" ">> \o JoinWords(Tail(ws))

Normalised(s) == JoinWords(WordsOf(s))

IsNormal(t) ==
    /\ t # <<>> => t[1] \notin Whitespace /\ t[Len(t)] \notin Whitespace
    /\ \A i \in 1..Len(t) :
          t[i] \in Whitespace => t[i] = " " /\ (i < Len(t) => t[i + 1] \notin Whitespace)

\* The items of a comma-separated input that are not blank, trimmed.
Items(input) ==
    IF Truthy(input)
    THEN LET trimmed == [k \in DOMAIN input |-> Trim(input[k])]
         IN  SelectSeq(trimmed, LAMBDA x : x # <<>>)
    ELSE <<>>

RawText(e) == get_text(page, soup, e)

Extracted ==
    pc \in {"extracted", "exported_ui", "exported_main", "displayed", "no_matches",
           "no_matches_displayed"}

\* Positions of the candidates the length filter keeps.
Survivors == {i \in 1..Len(elements) : NormalLength(RawText(elements[i])) >= min_length}

-----------------------------------------------------------------------------
(* Properties.                                                             *)

\* C1: every record has length = number of characters of its text, and its
\* text is trimmed, holds no tab or newline and no two whitespace characters
\* in a row: it is the flattened text of a candidate with every whitespace
\* run collapsed to one space.
C1_RecordTextNormalised ==
    Extracted =>
        \A k \in 1..Len(results) :
            /\ results[k].length = Len(results[k].text)
            /\ IsNormal(results[k].text)
            /\ \E i \in 1..Len(elements) :
                  /\ page[elements[i]].tag = results[k].tag
                  /\ WordsOf(RawText(elements[i])) = WordsOf(results[k].text)

C1_Witness ==
    /\ pc = "extracted"
    /\ \E k \in 1..Len(results) :
          /\ results[k].text = <<"g", " ", "O">>
          /\ RawText(elements[k]) = <<"g", "\t", " ", "O">>
    /\ \E k \in 1..Len(results) :
          /\ results[k].text = <<"g">>
          /\ RawText(elements[k]) = <<" ", "g", "\n">>

\* C2: the records are exactly the candidates whose normalised text has at
\* least min_length characters, in the order of the candidates.
C2_ExtractKeepsOrderedSubsequence ==
    Extracted =>
        /\ Len(results) = Cardinality(Survivors)
        /\ \A k \in 1..Len(results) :
              LET e == elements[Kth(Survivors, k)]
              IN  /\ results[k].tag = page[e].tag
                  /\ results[k].text = Normalised(RawText(e))
                  /\ results[k].length >= min_length

C2_Witness ==
    /\ pc = "extracted"
    /\ min_length = 2
    /\ Len(elements) = 3
    /\ Survivors = {1, 3}
    /\ results[1].length = 3
    /\ results[2].length = 2

\* C3: without tag and id filter the selection is, for each tag of the
\* default list in the order of the list, the elements of that tag in
\* document order.
DefaultTagOrder ==
    <<"p", "h1", "h2", "h3", "h4", "h5", "h6", "div", "span", "article",
      "section", "a", "button", "input", "form", "li", "td", "th", "label",
      "nav", "header", "footer", "main">>

DefaultRank(tag) == Min({r \in 1..Len(DefaultTagOrder) : DefaultTagOrder[r] = tag})

DefaultSelection ==
    Concat([r \in 1..Len(DefaultTagOrder) |->
               Sorted({j \in soup : page[j].tag = DefaultTagOrder[r]})])

C3_DefaultSelection ==
    pc = "selected" /\ ~Truthy(tag_filter) /\ ~Truthy(id_filter) =>
        /\ Len(elements) = Cardinality({j \in soup : page[j].tag \in Range(DefaultTagOrder)})
        /\ Range(elements) = {j \in soup : page[j].tag \in Range(DefaultTagOrder)}
        /\ \A a, b \in 1..Len(elements) :
              a < b =>
                  \/ DefaultRank(page[elements[a]].tag) < DefaultRank(page[elements[b]].tag)
                  \/ /\ page[elements[a]].tag = page[elements[b]].tag
                     /\ elements[a] < elements[b]

C3_Witness ==
    /\ pc = "selected"
    /\ tag_filter = Empty
    /\ id_filter = Empty
    /\ Len(page) = 3
    /\ page[1].tag = "a" /\ page[2].tag = "em" /\ page[3].tag = "p"
    /\ elements = <<3, 1>>

\* The matches of the tag filter and of the id filter.
TagMatches ==
    Concat([k \in 1..Len(Items(tag_filter)) |->
               Sorted({j \in soup : <<page[j].tag>> = Items(tag_filter)[k]})])

IdHits(name) == {j \in soup : "id" \in DOMAIN page[j].attrs /\ <<page[j].attrs.id>> = name}

IdMatches ==
    Concat([k \in 1..Len(Items(id_filter)) |->
               IF IdHits(Items(id_filter)[k]) = {} THEN <<>>
               ELSE <<Min(IdHits(Items(id_filter)[k]))>>])

\* C4: the default tags are used if and only if both filters are empty; a
\* filter that matches nothing leaves the selection empty.
C4_FallbackOnlyWithoutFilters ==
    pc = "selected" =>
        /\ ~Truthy(tag_filter) /\ ~Truthy(id_filter) => elements = DefaultSelection
        /\ (Truthy(tag_filter) \/ Truthy(id_filter)) /\ TagMatches \o IdMatches = <<>>
              => elements = <<>>

\* C5: with both filters the selection is the tag matches followed by the id
\* matches, without de-duplication.
C5_TagThenIdConcatenation ==
    pc = "selected" /\ Truthy(tag_filter) /\ Truthy(id_filter) =>
        /\ elements = TagMatches \o IdMatches
        /\ Len(elements) = Len(TagMatches) + Len(IdMatches)

\* What holds of the selection under any filter whose matches are not empty.
SelectionIsTagThenIdMatches ==
    pc = "selected" /\ TagMatches \o IdMatches # <<>> =>
        elements = TagMatches \o IdMatches

\* C6: the text filter keeps, in order and once each, exactly the candidates
\* whose lower-cased flattened text matches one of the lower-cased, trimmed
\* terms under the match type.
Candidates == select_elements(page, soup, tag_filter, id_filter)

OccursAt(text, term, off) ==
    /\ off >= 0
    /\ off + Len(term) <= Len(text)
    /\ \A k \in 1..Len(term) : text[off + k] = term[k]

TermMatches(text, term) ==
    CASE match_type = "contains" -> \E off \in 0..Len(text) : OccursAt(text, term, off)
      [] match_type = "starts_with" -> OccursAt(text, term, 0)
      [] match_type = "ends_with" -> OccursAt(text, term, Len(text) - Len(term))
      [] match_type = "exact" -> text = term

LowerCased(s) == [i \in 1..Len(s) |-> IF s[i] \in DOMAIN LowerMap THEN LowerMap[s[i]] ELSE s[i]]

Terms == {LowerCased(t) : t \in Range(Items(search_terms))}

TextMatching ==
    {i \in 1..Len(Candidates) :
        \E term \in Terms : TermMatches(LowerCased(RawText(Candidates[i])), term)}

C6_TextFilterKeepsMatchingOnce ==
    pc = "filtered" /\ Truthy(search_terms) =>
        /\ Len(elements) = Cardinality(TextMatching)
        /\ \A k \in 1..Len(elements) : elements[k] = Candidates[Kth(TextMatching, k)]

C6_Witness ==
    /\ pc = "filtered"
    /\ Cardinality(Terms) = 2
    /\ Len(Candidates) = 2
    /\ Len(elements) = 1
    /\ \A term \in Terms : TermMatches(LowerCased(RawText(elements[1])), term)

\* C7: with match type exact an element is kept if and only if its
\* lower-cased, whitespace-collapsed and trimmed text equals a lower-cased term.
C7_ExactMatchesNormalisedText ==
    pc = "filtered" /\ Truthy(search_terms) /\ match_type = "exact" =>
        \A i \in 1..Len(Candidates) :
            Candidates[i] \in Range(elements)
                <=> LowerCased(Normalised(RawText(Candidates[i]))) \in Terms

-----------------------------------------------------------------------------
(* Link resolution and the layout of the Text Renderer.                    *)

HasPrefix(s, p) == Len(p) <= Len(s) /\ \A i \in 1..Len(p) : s[i] = p[i]

\* scheme://host of a source URL: the URL up to the end of its host.
HostStart(u) ==
    Min({i \in 1..Len(u) : i + 2 <= Len(u) /\ u[i] = ":" /\ u[i + 1] = "/" /\ u[i + 2] = "/"}) + 3

HostEnd(u) ==
    LET stops == {i \in HostStart(u)..Len(u) : u[i] \in {"/", "?", "#"}}
    IN  IF stops = {} THEN Len(u) ELSE Min(stops) - 1

SchemeHost(u) == SubSeq(u, 1, HostEnd(u))

AbsoluteSchemes ==
    { <<"h", "t", "t", "p", ":", "/", "/">>, <<"h", "t", "t", "p", "s", ":", "/", "/">>, <<"m", "a", "i", "l", "t", "o", ":">>, <<"t", "e", "l", ":">> }

IsAbsolute(h) == \E p \in AbsoluteSchemes : HasPrefix(h, p)

WithoutLeadingSlashes(h) ==
    LET rest == {i \in 1..Len(h) : h[i] # "/"}
    IN  IF rest = {} THEN <<>> ELSE SubSeq(h, Min(rest), Len(h))

\* The four-case rule.
Resolved(u, h) ==
    CASE HasPrefix(h, <<"/">>) -> SchemeHost(u) \o h
      [] HasPrefix(h, <<"#">>) -> u \o h
      [] IsAbsolute(h) -> h
      [] OTHER -> SchemeHost(u) \o <<"/">> \o WithoutLeadingSlashes(h)

\* The anchor records the renderers print as links.
LinkRecords == {k \in 1..Len(results) : results[k].tag = "a" /\ results[k].href # <<>>}

FormRecords == {k \in 1..Len(results) : results[k].tag = "form" /\ results[k].action # <<>>}

\* The lines of an output that print record k.
LinesOf(lines, k) == {n \in 1..Len(lines) : lines[n].kind \notin {"header", "blank", "rule"} /\ lines[n].rec = k}

TextLink(k, target) == results[k].text \o <<" -> ">> \o target

MarkdownLink(k, target) == <<"- [">> \o results[k].text \o <<"](">> \o target \o <<")">>

\* C8: the link the Text Renderer and the Markdown Renderers print for an
\* anchor with an href is the href resolved by the four-case rule: "/..." on
\* scheme://host, "#..." on the source URL, http://, https://, mailto: and
\* tel: unchanged, anything else on scheme://host/.
C8_LinksFollowFourCaseRule ==
    /\ pc = "displayed" =>
          \A k \in LinkRecords :
              /\ LinesOf(text_lines, k) # {}
              /\ \A n \in LinesOf(text_lines, k) :
                    text_lines[n].s = TextLink(k, Resolved(url, results[k].href))
              /\ LinesOf(markdown_lines, k) # {}
              /\ \A n \in LinesOf(markdown_lines, k) :
                    markdown_lines[n].s = MarkdownLink(k, Resolved(url, results[k].href))
    /\ pc = "exported_ui" =>
          \A k \in LinkRecords :
              /\ LinesOf(markdown_lines, k) # {}
              /\ \A n \in LinesOf(markdown_lines, k) :
                    markdown_lines[n].s = MarkdownLink(k, Resolved(url, results[k].href))
    /\ pc = "exported_main" =>
          \A k \in LinkRecords :
              /\ \E n \in 1..Len(markdown_lines) :
                    /\ markdown_lines[n].kind = "url" /\ markdown_lines[n].rec = k
              /\ \A n \in 1..Len(markdown_lines) :
                    markdown_lines[n].kind = "url" /\ markdown_lines[n].rec = k =>
                        markdown_lines[n].s
                            = <<"**URL:** ">> \o Resolved(url, results[k].href)

\* The four examples on the source https://a.com/p.
C8_Witness ==
    /\ pc = "displayed"
    /\ page = LinksPage
    /\ url = <<"h", "t", "t", "p", "s", ":", "/", "/", "a", ".", "c", "o", "m", "/", "p">>
    /\ [k \in 1..4 |-> results[k].href]
          = << <<"/", "x">>, <<"#", "s", "e", "c">>, <<"y", "/", "z">>, <<"h", "t", "t", "p", "s", ":", "/", "/", "e", "x", "t", ".", "c", "o", "m">> >>
    /\ \E n \in 1..Len(text_lines) :
          text_lines[n].s = T_Next \o <<" -> ">> \o <<"h", "t", "t", "p", "s", ":", "/", "/", "a", ".", "c", "o", "m", "/", "x">>
    /\ \E n \in 1..Len(text_lines) :
          text_lines[n].s = T_Go \o <<" -> ">> \o <<"h", "t", "t", "p", "s", ":", "/", "/", "a", ".", "c", "o", "m", "/", "p", "#", "s", "e", "c">>
    /\ \E n \in 1..Len(text_lines) :
          text_lines[n].s = T_Hi \o <<" -> ">> \o <<"h", "t", "t", "p", "s", ":", "/", "/", "a", ".", "c", "o", "m", "/", "y", "/", "z">>
    /\ \E n \in 1..Len(text_lines) :
          text_lines[n].s = <<"e">> \o <<" -> ">> \o <<"h", "t", "t", "p", "s", ":", "/", "/", "e", "x", "t", ".", "c", "o", "m">>
    /\ \E n \in 1..Len(markdown_lines) :
          markdown_lines[n].s = <<"- [">> \o T_Hi \o <<"](">> \o <<"h", "t", "t", "p", "s", ":", "/", "/", "a", ".", "c", "o", "m", "/", "y", "/", "z">> \o <<")">>

\* Whether some line that prints record k holds the string target.
Prints(lines, k, target) ==
    \E n \in LinesOf(lines, k) :
        \E off \in 0..Len(lines[n].s) :
            /\ off + Len(target) <= Len(lines[n].s)
            /\ \A i \in 1..Len(target) : lines[n].s[off + i] = target[i]

\* C9: the Text, Markdown and JSON renderers output the same resolved
\* absolute URL for the href of every anchor record and for the action of
\* every form record.
C9_RenderersAgreeOnResolvedTargets ==
    pc = "displayed" =>
        /\ \A k \in LinkRecords :
              /\ Prints(text_lines, k, Resolved(url, results[k].href))
              /\ Prints(markdown_lines, k, Resolved(url, results[k].href))
              /\ json_data.elements[k].href = Resolved(url, results[k].href)
        /\ \A k \in FormRecords :
              /\ Prints(text_lines, k, Resolved(url, results[k].action))
              /\ Prints(markdown_lines, k, Resolved(url, results[k].action))
              /\ json_data.elements[k].action = Resolved(url, results[k].action)

\* The target a link line holds after its text.
TextTarget(k, n) == SubSeq(text_lines[n].s, Len(results[k].text) + 2, Len(text_lines[n].s))

\* C9, amended: the Text and the Markdown Renderer print the same absolute
\* URL for every anchor record with an href; the JSON Renderer holds the href
\* and the action as they stand in the record; no renderer resolves the action
\* of a form: the Text Renderer and the Markdown Renderer of utils.py print
\* the form's text alone, the Markdown Renderer of main.py the action as it
\* stands in the record.
C9_TextAndMarkdownAgreeJsonLiteral ==
    /\ pc = "displayed" =>
          /\ \A k \in LinkRecords :
                /\ Cardinality(LinesOf(text_lines, k)) = 1
                /\ Cardinality(LinesOf(markdown_lines, k)) = 1
                /\ \A n \in LinesOf(text_lines, k), m \in LinesOf(markdown_lines, k) :
                      /\ text_lines[n].s = TextLink(k, TextTarget(k, n))
                      /\ markdown_lines[m].s = MarkdownLink(k, TextTarget(k, n))
                      /\ IsAbsolute(TextTarget(k, n))
          /\ \A k \in FormRecords :
                /\ \A n \in LinesOf(text_lines, k) : text_lines[n].s = results[k].text
                /\ \A m \in LinesOf(markdown_lines, k) :
                      markdown_lines[m].s = <<"> ">> \o results[k].text
          /\ json_data.elements = results
    /\ pc \in {"exported_ui", "exported_main"} => json_data.elements = results
    /\ pc = "exported_main" =>
          \A k \in FormRecords :
              \A n \in 1..Len(markdown_lines) :
                  markdown_lines[n].kind = "action" /\ markdown_lines[n].rec = k =>
                      markdown_lines[n].s = <<"**Action:** ">> \o results[k].action

C9_Witness ==
    /\ pc = "displayed"
    /\ page = LinksPage
    /\ url = <<"h", "t", "t", "p", "s", ":", "/", "/", "a", ".", "c", "o", "m", "/", "p">>
    /\ results[3].tag = "a"
    /\ results[3].href = <<"y", "/", "z">>
    /\ json_data.elements[3].href = <<"y", "/", "z">>
    /\ Prints(text_lines, 3, <<"h", "t", "t", "p", "s", ":", "/", "/", "a", ".", "c", "o", "m", "/", "y", "/", "z">>)
    /\ Prints(markdown_lines, 3, <<"h", "t", "t", "p", "s", ":", "/", "/", "a", ".", "c", "o", "m", "/", "y", "/", "z">>)
    /\ results[5].tag = "form"
    /\ results[5].action = <<"/", "s">>
    /\ json_data.elements[5].action = <<"/", "s">>
    /\ ~Prints(text_lines, 5, <<"/", "s">>)
    /\ ~Prints(markdown_lines, 5, <<"/", "s">>)

\* The priority order of the sections.
PriorityOrder ==
    <<"BUTTON", "A", "FORM", "INPUT", "H1", "H2", "H3", "H4", "H5", "H6", "P",
      "DIV", "SPAN", "SECTION", "LI", "LABEL", "NAV", "HEADER", "FOOTER", "MAIN">>

\* Rank of a section: its place in the priority order, one more than the
\* last place for a tag outside it.
SectionRank(tag) ==
    IF tag \in Range(PriorityOrder)
    THEN Min({r \in 1..Len(PriorityOrder) : PriorityOrder[r] = tag})
    ELSE Len(PriorityOrder) + 1

SectionHeaders == {n \in 1..Len(text_lines) : text_lines[n].kind = "header"}

\* The section a line lies in: the tag of the last header above it.
SectionOf(n) ==
    IF \E m \in SectionHeaders : m < n
    THEN text_lines[Max({m \in SectionHeaders : m < n})].tag
    ELSE "(none)"

SectionsInPriorityOrder ==
    \A m, n \in SectionHeaders :
        m < n =>
            /\ text_lines[m].tag # text_lines[n].tag
            /\ SectionRank(text_lines[m].tag) <= SectionRank(text_lines[n].tag)
            /\ SectionRank(text_lines[m].tag) = SectionRank(text_lines[n].tag)
                  => text_lines[m].tag \notin Range(PriorityOrder)

RecordOnItsLine(k) ==
    \A n \in LinesOf(text_lines, k) :
        /\ HasPrefix(text_lines[n].s, results[k].text)
        /\ SectionOf(n) = upper_tag[results[k].tag]

SectionsKeepInputOrder ==
    \A j, k \in 1..Len(results) :
        \A a \in LinesOf(text_lines, j), b \in LinesOf(text_lines, k) :
            j < k /\ SectionOf(a) = SectionOf(b) => a < b

-----------------------------------------------------------------------------
(* The exports.                                                            *)

\* The lines of a text that are not empty.
LinesIn(s) ==
    { SubSeq(s, ab[1], ab[2]) :
        ab \in { ab \in (1..Len(s)) \X (1..Len(s)) :
                    /\ ab[1] <= ab[2]
                    /\ ab[1] = 1 \/ s[ab[1] - 1] = "\n"
                    /\ ab[2] = Len(s) \/ s[ab[2] + 1] = "\n"
                    /\ \A i \in ab[1]..ab[2] : s[i] # "\n" } }

\* The states in which the downloads are offered.
Exported == pc \in {"exported_ui", "exported_main", "displayed"}

\* The lines of the text download that are not empty.
TextDownloadLines ==
    IF pc = "displayed" THEN {text_lines[n].s : n \in 1..Len(text_lines)} \ {<<>>}
    ELSE LinesIn(text_content)

\* C11: wherever the text download is offered, it is the output of the Text
\* Renderer for the records of the run: it holds every section header and
\* every record line the Text Renderer writes for them.
C11_TextDownloadIsTextRenderer ==
    Exported =>
        LET rendered == create_organized_text_content(results, url, page_metadata, clock[1])
        IN  \A n \in 1..Len(rendered) :
                rendered[n].s # <<>> => rendered[n].s \in TextDownloadLines

\* The tags of the sections of an output, in the order of their headers.
SectionTags(lines) ==
    [n \in 1..Len(SelectSeq(lines, LAMBDA l : l.kind = "header")) |->
        SelectSeq(lines, LAMBDA l : l.kind = "header")[n].tag]

\* The records of S an output prints, each with its section, in the order of
\* the lines.
RecordOrder(lines, S) ==
    [n \in 1..Len(SelectSeq(lines, LAMBDA l : l.kind = "record" /\ l.rec \in S)) |->
        << SelectSeq(lines, LAMBDA l : l.kind = "record" /\ l.rec \in S)[n].tag,
           SelectSeq(lines, LAMBDA l : l.kind = "record" /\ l.rec \in S)[n].rec >>]

\* The records with something to print: a link, or a text that is not empty.
Printable == {k \in 1..Len(results) : k \in LinkRecords \/ results[k].text # <<>>}

MarkdownQuote(k) == <<"> ">> \o results[k].text

\* The lines of the Markdown output for record k are exactly one, and it is s.
MarkdownPrints(k, s) ==
    /\ Cardinality(LinesOf(markdown_lines, k)) = 1
    /\ \A n \in LinesOf(markdown_lines, k) : markdown_lines[n].s = s

SameSectionsAndOrder ==
    /\ SectionTags(markdown_lines) = SectionTags(text_lines)
    /\ RecordOrder(markdown_lines, Printable) = RecordOrder(text_lines, Printable)

\* C12: the Markdown Renderer has the sections of the Text Renderer in the
\* same order and the records of each section in the same order; an anchor
\* with an href is the bullet "- [text](resolved href)" and every other record
\* is the block quote "> text".
C12_MarkdownMirrorsText ==
    pc = "displayed" =>
        /\ SameSectionsAndOrder
        /\ \A k \in 1..Len(results) :
              IF k \in LinkRecords
              THEN MarkdownPrints(k, MarkdownLink(k, Resolved(url, results[k].href)))
              ELSE MarkdownPrints(k, MarkdownQuote(k))

\* C12, amended: the same sections and the same order of records; an anchor
\* with an href is the bullet, every other record whose text is not blank is
\* the block quote, and a record without href whose text is blank has no line
\* in the Markdown output.
C12_MarkdownMirrorsTextNonBlank ==
    pc = "displayed" =>
        /\ SameSectionsAndOrder
        /\ \A k \in 1..Len(results) :
              IF k \in LinkRecords
              THEN MarkdownPrints(k, MarkdownLink(k, Resolved(url, results[k].href)))
              ELSE IF NonBlank(results[k].text) # {}
                   THEN MarkdownPrints(k, MarkdownQuote(k))
                   ELSE LinesOf(markdown_lines, k) = {}

C12_Witness ==
    /\ pc = "displayed"
    /\ Len(SectionTags(markdown_lines)) >= 2
    /\ SectionTags(markdown_lines) = SectionTags(text_lines)
    /\ \E j, k \in Printable : j < k /\ results[j].tag = results[k].tag
    /\ \E k \in LinkRecords :
          MarkdownPrints(k, MarkdownLink(k, Resolved(url, results[k].href)))
    /\ \E k \in 1..Len(results) :
          /\ k \notin LinkRecords
          /\ results[k].text # <<>>
          /\ MarkdownPrints(k, MarkdownQuote(k))
    /\ \E k \in 1..Len(results) :
          /\ k \notin LinkRecords
          /\ results[k].text = <<>>
          /\ LinesOf(markdown_lines, k) = {}

\* The button, link, form and input records.
Interactive ==
    {k \in 1..Len(results) : results[k].tag \in {"button", "a", "form", "input"}}

\* The lines of the Markdown output that are the title of the summary.
SummaryTitles ==
    {n \in 1..Len(markdown_lines) :
        markdown_lines[n].s = <<"## ", "U+1F3AF", " Interactive Elements Summary">>}

\* The lines of the Markdown output that open a content section.
ContentSections ==
    {n \in 1..Len(markdown_lines) : markdown_lines[n].kind \in {"header", "section"}}

\* The lines of the summary that list record k.
SummaryLinesOf(k) ==
    {n \in 1..Len(markdown_lines) :
        markdown_lines[n].kind = "summary" /\ markdown_lines[n].rec = k}

\* C13: the Markdown output has an Interactive Elements Summary exactly when
\* the records hold a button, a link, a form or an input; the summary lists
\* each of these records and stands before every content section.
C13_SummaryOfInteractiveRecords ==
    Exported =>
        IF Interactive = {} THEN SummaryTitles = {}
        ELSE /\ Cardinality(SummaryTitles) = 1
             /\ \A k \in Interactive :
                   \E n \in SummaryLinesOf(k) :
                       /\ \A t \in SummaryTitles : t < n
                       /\ \A c \in ContentSections : n < c

\* The names the Markdown output gives to record k, in the summary and in
\* the content sections.
NamesOf(k) ==
    {markdown_lines[n].name :
        n \in {m \in 1..Len(markdown_lines) :
                  /\ markdown_lines[m].kind \in {"summary", "section"}
                  /\ markdown_lines[m].rec = k
                  /\ markdown_lines[m].name # <<>>}}

PositionalName(k) == <<results[k].tag, "-">> \o str_int(k)

\* C14: a record with an empty id is named "<tag>-<position>", the position
\* counted from 1 in the record sequence, and has that one name wherever an
\* output names it: in the Interactive Elements Summary and in its content
\* section.
C14_OneFallbackNameEverywhere ==
    pc = "exported_main" =>
        \A k \in 1..Len(results) :
            results[k].id = "" => NamesOf(k) \subseteq {PositionalName(k)}

\* The fields the model holds as one atom stand for strings: "" for the empty
\* string, any other atom for the string of that one token.
AtomFields == {"tag", "id", "type", "method"}

\* A record as a decoded JSON object: its keys, and its values as JSON values.
AsObject(r) ==
    [key \in {<<f>> : f \in DOMAIN r} |->
        IF key[1] \in AtomFields
        THEN (IF r[key[1]] = "" THEN <<>> ELSE <<r[key[1]]>>)
        ELSE r[key[1]]]

\* The JSON download, decoded.
Decoded == json_loads(json_content)

\* C15: the JSON download decodes; its elements are the records of the run,
\* field for field and in their order, its metadata is the page metadata, and
\* its total_elements is the number of elements.
C15_JsonRoundTrip ==
    Exported =>
        LET d == Decoded
        IN  /\ d.ok
            /\ Len(d.val[<<"elements">>]) = Len(results)
            /\ \A k \in 1..Len(results) : d.val[<<"elements">>][k] = AsObject(results[k])
            /\ d.val[<<"metadata">>] = AsObject(page_metadata)
            /\ d.val[<<"total_elements">>] = Len(d.val[<<"elements">>])
            /\ d.val[<<"url">>] = url

C15_Witness ==
    /\ Exported
    /\ Len(results) = 1
    /\ results[1].text = <<"a", "U+0022", "\\", "n">>
    /\ page_metadata.title = <<"T", "U+0022">>
    /\ page_metadata.og_title = <<"o", "\n">>
    /\ page_metadata.lang = <<"e", "n">>
    /\ Decoded.ok
    /\ Decoded.val[<<"elements">>][1][<<"text">>] = <<"a", "U+0022", "\\", "n">>
    /\ Decoded.val[<<"elements">>][1][<<"tag">>] = <<"p">>
    /\ Decoded.val[<<"metadata">>][<<"title">>] = <<"T", "U+0022">>
    /\ Decoded.val[<<"total_elements">>] = 1

-----------------------------------------------------------------------------
(* The fetch and its errors. *)

\* The messages of one level the run has shown
MessagesOf(level) == {k \in 1..Len(messages) : messages[k].level = level}

\* The fetch is over: scrape_website has returned
Fetched == url # <<>> /\ pc \notin {"ready", "fetching"} /\ attempts >= 1

\* What the run holds when it reported one error and stopped: no tree, nothing
\* selected or extracted, no record, no export artifact
StoppedOnError ==
    /\ pc = "stopped"
    /\ ~ENABLED Next
    /\ soup = {}
    /\ error # None
    /\ Cardinality(MessagesOf("error")) = 1
    /\ messages[Len(messages)] = Message("error", <<"Error scraping website: ">> \o error)
    /\ MessagesOf("success") = {}
    /\ elements = <<>>
    /\ results = <<>>
    /\ text_lines = <<>>
    /\ markdown_lines = <<>>
    /\ text_content = None
    /\ json_content = None

\* C16: when the fetch ends on a transport error (a timeout, a connection
\* failure, exhausted retries, a non-2xx status) no tree is returned, the run
\* reports exactly one error and stops there: nothing is stripped, selected,
\* filtered or extracted, no record exists and no export artifact is made.
C16_TransportErrorStopsTheRun ==
    (/\ Fetched
     /\ \/ server[attempts].kind = "failure"
        \/ server[attempts].status \notin 200..299)
    => StoppedOnError

\* The attempts the session made another attempt after
Retried == IF pc = "fetching" THEN 1..attempts ELSE 1..(attempts - 1)

\* An outcome that is not transient: a 4xx status other than 429, a DNS
\* failure, a refused connection
NonTransient(o) ==
    \/ o.kind = "failure" /\ o.cause \in {"dns", "refused"}
    \/ o.kind = "response" /\ o.status \in (400..499) \ {429}

\* C17: an attempt that meets a non-transient error (a 4xx status other than
\* 429, a DNS failure, a refused connection) is not retried: the fetch fails
\* on it, and when it is the first attempt the fetch made exactly one attempt.
C17_NonTransientIsNotRetried ==
    /\ \A k \in Retried : ~NonTransient(server[k])
    /\ (pc = "stopped" /\ url # <<>> /\ NonTransient(server[1])) => attempts = 1

TransientStatuses == {429, 500, 502, 503, 504}

\* C18: the fetch makes at most 3 retries after its first attempt and, while
\* it is not over, has a step to take; a server that answers every attempt
\* with a transient status (429, 500, 502, 503, 504) ends the fetch in a
\* transport error after the 3 retries; and a response is retried only when
\* its status is one of those five.
C18_BoundedRetriesOfFiveStatuses ==
    /\ attempts <= 3 + 1
    /\ pc = "fetching" => ENABLED Next
    /\ (/\ Fetched
        /\ \A k \in 1..(3 + 1) :
              server[k].kind = "response" /\ server[k].status \in TransientStatuses)
       => pc = "stopped" /\ attempts = 3 + 1 /\ error # None /\ soup = {}
    /\ \A k \in Retried :
          server[k].kind = "response" => server[k].status \in TransientStatuses

-----------------------------------------------------------------------------
(* The custom headers. *)

\* No custom-headers text is given: the mode has no such input, or it is empty
NoHeadersText == custom_headers = None \/ custom_headers = <<>>

\* The custom-headers text is malformed: it is given and is not JSON
Malformed == ~NoHeadersText /\ ~json_loads(custom_headers).ok

InvalidHeadersWarning ==
    Message("warning", <<"Invalid JSON in custom headers, using default headers">>)

HeaderWarnings == {k \in 1..Len(messages) : messages[k] = InvalidHeadersWarning}

\* The request went out with the browser User-Agent and nothing else
SentDefaultHeaders ==
    /\ attempts >= 1
    /\ DOMAIN request_headers = {<<"User-Agent">>}
    /\ request_headers[<<"User-Agent">>] = <<UserAgent>>

\* C19: with a malformed custom-headers text the run shows one warning, keeps
\* no custom header, sends every attempt with the default header set (the
\* browser User-Agent) and stops only if the fetch itself fails; with no
\* custom-headers text the attempts carry the same default header set and no
\* warning is shown.
C19_MalformedHeadersFallBackToDefault ==
    (url # <<>> /\ pc # "ready") =>
        /\ Malformed =>
              /\ Cardinality(HeaderWarnings) = 1
              /\ headers = NoHeaders
              /\ attempts >= 1 => SentDefaultHeaders
              /\ pc = "stopped" => ~is_ok(server[attempts])
              /\ (pc # "fetching" /\ is_ok(server[attempts])) =>
                    soup # {} /\ error = None /\ MessagesOf("error") = {}
        /\ NoHeadersText =>
              /\ HeaderWarnings = {}
              /\ attempts >= 1 => SentDefaultHeaders

C19_Witness ==
    /\ Malformed
    /\ custom_headers = <<"k", "=", "v">>
    /\ pc \in {"exported_ui", "exported_main", "displayed"}
    /\ Cardinality(HeaderWarnings) = 1
    /\ SentDefaultHeaders
    /\ results # <<>>

-----------------------------------------------------------------------------
(* A run without a match. *)

\* The run is over: it stopped, or it has shown what it found
Ended ==
    pc \in {"stopped", "exported_ui", "exported_main", "displayed",
            "no_matches", "no_matches_displayed"}

\* C20: a run whose fetch succeeded and whose extraction left no record ends
\* in a "no matches" outcome that is not the outcome of a transport error: its
\* last message is the no-matches notice, a warning; no error is reported; no
\* text, Markdown or JSON artifact is made; and nothing follows.
C20_NoMatchesIsNotAnError ==
    (Ended /\ url # <<>> /\ is_ok(server[attempts]) /\ results = <<>>) =>
        /\ pc \in {"no_matches", "no_matches_displayed"}
        /\ messages # <<>>
        /\ messages[Len(messages)].level = "warning"
        /\ messages[Len(messages)].text = no_matches_message.text
        /\ MessagesOf("error") = {}
        /\ error = None
        /\ text_lines = <<>>
        /\ markdown_lines = <<>>
        /\ text_content = None
        /\ json_content = None
        /\ ~ENABLED Next

C20_Witness ==
    /\ pc = "no_matches"
    /\ is_ok(server[attempts])
    /\ elements # <<>>
    /\ results = <<>>
    /\ MessagesOf("error") = {}
    /\ messages[Len(messages)].level = "warning"
    /\ json_content = None

-----------------------------------------------------------------------------
(* The stripping of scripts. *)

\* The element is a script, style or noscript element, or lies inside one
InStripped(pg, j) ==
    \E i \in {j} \cup Ancestors(pg, j) : pg[i].tag \in {"script", "style", "noscript"}

\* C21: with the strip-scripts option set, no selection is made before the
\* script, style and noscript subtrees are removed, and no element a run
\* selects (by tag filter, id filter or default tags) is such an element or
\* lies inside one, whatever the filters name.
C21_NothingSelectedFromStrippedSubtrees ==
    remove_scripts =>
        /\ pc \in {"ready", "fetching", "fetched", "stripped"} => elements = <<>>
        /\ pc \notin {"ready", "fetching", "fetched"} =>
              \A j \in soup : ~InStripped(page, j)
        /\ \A k \in 1..Len(elements) : ~InStripped(page, elements[k])

C21_Witness ==
    /\ remove_scripts
    /\ pc = "selected"
    /\ tag_filter = << <<"noscript">>, <<"div">> >>
    /\ id_filter = << <<"go">> >>
    /\ \E j \in 1..Len(page) :
          /\ page[j].tag = "div"
          /\ page[j].parent # 0
          /\ page[page[j].parent].tag = "noscript"
    /\ \E j \in 1..Len(page) : page[j].tag = "div" /\ page[j].parent = 0
    /\ elements # <<>>

-----------------------------------------------------------------------------
(* The page metadata. *)

\* Where each field of PageMetadata comes from: the element, the attribute
\* and value that single it out ("" when the element's name does), and the
\* attribute read ("" for the element's text).
MetadataSources ==
    [ title |-> <<"title", "", "", "">>,
      description |-> <<"meta", "name", "description", "content">>,
      keywords |-> <<"meta", "name", "keywords", "content">>,
      author |-> <<"meta", "name", "author", "content">>,
      canonical |-> <<"link", "rel", "canonical", "href">>,
      robots |-> <<"meta", "name", "robots", "content">>,
      og_title |-> <<"meta", "property", "og:title", "content">>,
      og_description |-> <<"meta", "property", "og:description", "content">>,
      og_image |-> <<"meta", "property", "og:image", "content">>,
      lang |-> <<"html", "", "", "lang">>,
      charset |-> <<"meta", "", "", "charset">> ]

\* The page has the source of the field: the element, with the attribute read
HasSource(src) ==
    \E j \in 1..Len(page) :
        /\ page[j].tag = src[1]
        /\ src[2] # "" => (src[2] \in DOMAIN page[j].attrs /\ page[j].attrs[src[2]] = src[3])
        /\ src[4] # "" => src[4] \in DOMAIN page[j].attrs

\* C22: after a successful fetch the page metadata has the eleven fields
\* title, description, keywords, author, canonical, robots, og_title,
\* og_description, og_image, lang and charset, no error is returned, and a
\* field whose element or attribute is not in the page is the empty string.
C22_MetadataHasElevenFields ==
    (Fetched /\ is_ok(server[attempts])) =>
        /\ error = None
        /\ pc # "stopped"
        /\ DOMAIN page_metadata =
              {"title", "description", "keywords", "author", "canonical", "robots",
               "og_title", "og_description", "og_image", "lang", "charset"}
        /\ \A f \in DOMAIN MetadataSources :
              ~HasSource(MetadataSources[f]) => page_metadata[f] = <<>>

C22_Witness ==
    /\ Fetched
    /\ is_ok(server[attempts])
    /\ HasSource(MetadataSources.title)
    /\ ~HasSource(MetadataSources.description)
    /\ \E j \in 1..Len(page) : page[j].tag = "meta" /\ page[j].attrs = [name |-> "description"]
    /\ HasSource(MetadataSources.keywords)
    /\ ~HasSource(MetadataSources.lang)
    /\ page_metadata.description = <<>>
    /\ page_metadata.lang = <<>>
    /\ page_metadata.keywords = <<"k">>

-----------------------------------------------------------------------------
(* The sorting and the paging. *)

\* The records are shown: sorted and cut into the page
Shown == pc \in {"shown_ui", "shown_main", "shown_displayed"}

\* The records in selection order: what the extraction made of the elements
SelectionOrder == extract_text_content(page, soup, elements, min_length)

IsPermutation(a, b) ==
    /\ Len(a) = Len(b)
    /\ \E f \in Permutations(1..Len(a)) : \A i \in 1..Len(a) : b[i] = a[f[i]]

\* C23: for each sort option the record list after the sort is a permutation
\* of the list before it, every record with its text, tag, length, id and
\* attributes as they were; with the option "order" the list is unchanged.
C23_SortPermutesTheRecords ==
    Shown =>
        /\ sort_by \in {"order", "length_desc", "length_asc", "tag_type"}
        /\ IsPermutation(SelectionOrder, results)
        /\ sort_by = "order" => results = SelectionOrder

C23_Witness ==
    /\ Shown
    /\ sort_by = "tag_type"
    /\ Len(results) = 3
    /\ results # SelectionOrder
    /\ IsPermutation(SelectionOrder, results)
    /\ results[1].tag = "p" /\ results[2].tag = "p" /\ results[3].tag = "a"
    /\ results[1].length > results[2].length

\* C24: display_results leaves the record sequence of its caller as it was:
\* once it has shown the records, for every sort option and page, the
\* sequence holds the same records in the same order as before the call.
C24_DisplayLeavesRecordsInSelectionOrder ==
    pc = "shown_displayed" => results = SelectionOrder

\* The pages 1..n of the records, one after the other
RECURSIVE PagesUpTo(_)
PagesUpTo(n) ==
    IF n = 0 THEN <<>>
    ELSE PagesUpTo(n - 1) \o page_results_of(results, items_per_page, n)

\* C27: for a non-empty record list and 10, 25, 50 or 100 items per page,
\* there is at least one page, every page that can be chosen is non-empty and
\* holds at most items-per-page records, the page shown is the chosen one, and
\* the pages 1..total_pages in order make up the record list exactly.
C27_PagesPartitionTheRecords ==
    (results # <<>> /\ items_per_page \in {10, 25, 50, 100}) =>
        LET pages == total_pages(results, items_per_page)
        IN  /\ pages >= 1
            /\ page_choices(results, items_per_page) = 1..pages
            /\ \A n \in 1..pages :
                  /\ page_results_of(results, items_per_page, n) # <<>>
                  /\ Len(page_results_of(results, items_per_page, n)) <= items_per_page
            /\ PagesUpTo(pages) = results
            /\ pc = "paged" =>
                  /\ page_number \in 1..pages
                  /\ page_results = page_results_of(results, items_per_page, page_number)

C27_Witness ==
    /\ pc = "paged"
    /\ Len(results) = 26
    /\ items_per_page = 25
    /\ total_pages(results, items_per_page) = 2
    /\ page_number = 2
    /\ page_results = <<results[26]>>


-----------------------------------------------------------------------------
(* The heading of the outputs.                                             *)

\* The page has no <title> element.
NoTitleElement == \A j \in 1..Len(page) : page[j].tag # "title"

\* 'Scraped Content from <domain>'
DomainHeading == <<"Scraped Content from ">> \o urlparse_netloc(url)

\* C29: the title line that heads the text and the Markdown output is never
\* empty; when the page has no <title> element it reads
\* 'Scraped Content from <domain>'.
C29_HeadingFallsBackToTheDomain ==
    Exported =>
        /\ pc = "displayed" => text_lines[1].kind = "page_title" /\ text_lines[1].s # <<>>
        /\ markdown_lines[1].kind = "page_title" /\ markdown_lines[1].s \notin {<<>>, <<"# ">>}
        /\ NoTitleElement =>
              /\ pc = "displayed" => text_lines[1].s = DomainHeading
              /\ markdown_lines[1].s = <<"# ">> \o DomainHeading


-----------------------------------------------------------------------------
(* The renderers and the clock.                                            *)

\* The Markdown Renderer of the handler that exported.
MarkdownRenderer(t) ==
    IF pc = "exported_main"
    THEN main_create_markdown_content(results, url, page_metadata, t)
    ELSE create_markdown_content(results, url, page_metadata, t)

Unstamped(lines) == SelectSeq(lines, LAMBDA l : l.kind # "scraped_on")

-----------------------------------------------------------------------------
(* The error check.                                                        *)

\* scrape_website returned no tree: the fetch is over and did not end on a
\* response raise_for_status() passes.
NoTree == Fetched /\ ~is_ok(server[attempts])

\* C26: every failed fetch is detected: whenever scrape_website returns no
\* tree the run stops at the error check, with its error reported, before
\* the stripping or the selection dereferences the tree; so too when the
\* error message of the failure is the empty string.
C26_EveryFailedFetchIsDetected ==
    NoTree =>
        /\ pc = "stopped"
        /\ MessagesOf("error") # {}


-----------------------------------------------------------------------------
(* The type of the headers.                                                *)

\* The custom-headers text is JSON, and its value is no object and not null.
NotAnObject ==
    /\ ~NoHeadersText
    /\ json_loads(custom_headers).ok
    /\ json_type(custom_headers) \in {"list", "str", "int", "bool"}

\* C30: what the handler hands to scrape_website as headers is None or a
\* mapping; a custom-headers text that is JSON of another type (an array, a
\* string, a number, a boolean) is treated like a malformed one: one
\* warning, no custom header, the default header set on every request.
C30_HeadersAreNoneOrAMapping ==
    (url # <<>> /\ pc # "ready") =>
        /\ headers.type \in {"NoneType", "dict"}
        /\ NotAnObject =>
              /\ Cardinality(HeaderWarnings) = 1
              /\ headers = NoHeaders
              /\ pc # "crashed"
              /\ attempts >= 1 => SentDefaultHeaders


-----------------------------------------------------------------------------
(* The exports and the display sort.                                       *)

\* C28: the text, the Markdown and the JSON artifact are built before the
\* records are sorted for the display: once the records are shown, under
\* whichever sort option, each artifact is what its renderer makes of the
\* records in selection order.
C28_ArtifactsListSelectionOrder ==
    Shown =>
        LET selected == SelectionOrder
        IN  /\ pc = "shown_displayed" =>
                  text_lines = create_organized_text_content(selected, url, page_metadata,
                                                             clock[1])
            /\ pc # "shown_displayed" => text_content = join_texts(selected)
            /\ markdown_lines =
                  IF pc = "shown_main"
                  THEN main_create_markdown_content(selected, url, page_metadata, clock[2])
                  ELSE create_markdown_content(selected, url, page_metadata, clock[2])
            /\ json_content =
                  json_dumps(make_json_data(selected, url, page_metadata, clock[3]))

C28_Witness ==
    /\ Shown
    /\ sort_by = "length_desc"
    /\ results # SelectionOrder
    /\ json_data.elements = results
    /\ json_content # json_dumps(json_data)

=============================================================================
